---- MODULE Spec2Model ----
(***************************************************************************)
(* Terrain geometry of tilemapedit3d: the tile grid (types.rs), the corner *)
(* height resolver and the mesh builder (terrain.rs).                      *)
(*                                                                         *)
(* Lengths and heights are integers in units of 1e-4 world units, so that  *)
(* TILE_SIZE = 1.0, TILE_HEIGHT = 0.4 and the skirt epsilon 1e-4 are all   *)
(* exact.  An Option<T> is the empty tuple (None) or a 1-tuple (Some(v)).  *)
(***************************************************************************)
EXTENDS Integers, Sequences, FiniteSets, TLC

VARIABLES
    map,            \* the TileMap handed to the mesh builder
    corner_cache,   \* populate_mesh_buffers' corner_cache (None before a build)
    mesh,           \* the Mesh of build_combined_mesh (None before a build)
    per_type,       \* the HashMap<TileType, Mesh> of build_map_meshes (None before)
    again,          \* what a second build of the same grid returned (None before)
    image,          \* the splatmap Image (None while there is none)
    app,            \* the Bevy world of the editor (None outside the editor)
    pc              \* the call made last, with its arguments (None before any)

vars == <<map, corner_cache, mesh, per_type, again, image, app, pc>>

----------------------------------------------------------------------------
(* Bounds of the model *)

MaxW == 3          \* grid widths 0..MaxW
MaxH == 3          \* grid heights 0..MaxH
MaxElev == 1       \* highest elevation step of a tile
MaxTiles == 9      \* tiles of a grid handed to the corner height resolver
MaxMeshTiles == 4  \* tiles of a grid handed to the mesh builder
MaxEditorTiles == 2  \* tiles of a grid open in the editor
MaxEdits == 1      \* changes of the grid in one run of the editor
MaxBuildTiles == 2 \* tiles of a grid that is built twice
MaxDepth == 5      \* frames of write and create on the call stack
MaxRampTiles == 6  \* tiles of a grid a single edit is run on

----------------------------------------------------------------------------
(* types.rs *)

TILE_SIZE == 10000
TILE_HEIGHT == 4000

None == << >>
Some(v) == <<v>>

TileKinds == {"Floor", "Ramp"}
TileTypes == {"Grass", "Dirt", "Cliff", "Water"}

ALL == <<"North", "East", "South", "West">>

RampDirections == {ALL[i] : i \in 1..Len(ALL)}

offset(dir) ==
    CASE dir = "North" -> <<0, -1>>
      [] dir = "East"  -> <<1, 0>>
      [] dir = "South" -> <<0, 1>>
      [] dir = "West"  -> <<-1, 0>>

as_index(tile_type) ==
    CASE tile_type = "Grass" -> 0
      [] tile_type = "Dirt"  -> 1
      [] tile_type = "Cliff" -> 2
      [] tile_type = "Water" -> 3

Tile(kind, tile_type, x, y, elevation, ramp_direction) ==
    [kind |-> kind, tile_type |-> tile_type, x |-> x, y |-> y,
     elevation |-> elevation, ramp_direction |-> ramp_direction]

\* TileMap::new(w, h): w*h copies of the default tile, whose x and y are 0
TileMapNew(w, h) ==
    [width |-> w, height |-> h,
     tiles |-> [i \in 0..(w * h - 1) |-> Tile("Floor", "Grass", 0, 0, 0, None)]]

idx(m, x, y) == y * m.width + x

get(m, x, y) == m.tiles[idx(m, x, y)]

set(m, x, y, t) == [m EXCEPT !.tiles[idx(m, x, y)] = t]

----------------------------------------------------------------------------
(* terrain.rs: corner height resolver *)

CORNER_NW == 0
CORNER_NE == 1
CORNER_SW == 2
CORNER_SE == 3

Min(a, b) == IF a <= b THEN a ELSE b
Max(a, b) == IF a >= b THEN a ELSE b
Abs(a) == IF a < 0 THEN -a ELSE a


\* variant: an off-grid neighbour counts as a neighbour of height 0
ramp_neighbor_height_sentinel(m, x, y, dir, base) ==
    LET d == offset(dir)
        nx == x + d[1]
        ny == y + d[2]
        height == IF nx < 0 \/ ny < 0 \/ nx >= m.width \/ ny >= m.height THEN 0
                  ELSE get(m, nx, ny).elevation * TILE_HEIGHT
    IN  IF height < base THEN Some(height) ELSE None

ramp_neighbor_height(m, x, y, dir, base) ==
    LET d == offset(dir)
        nx == x + d[1]
        ny == y + d[2]
    IN  IF nx < 0 \/ ny < 0 THEN None
        ELSE IF nx >= m.width \/ ny >= m.height THEN None
        ELSE LET height == get(m, nx, ny).elevation * TILE_HEIGHT
             IN  IF height < base THEN Some(height) ELSE None


\* variant: a later edge at the same height replaces the earlier one
ramp_target_step_last(result, dir, h) ==
    IF h = None THEN result
    ELSE IF result # None /\ result[1].height < h[1] THEN result
    ELSE Some([dir |-> dir, height |-> h[1]])

\* one iteration of find_ramp_target's loop: result after looking at dir
ramp_target_step(result, dir, h) ==
    IF h = None THEN result
    ELSE IF result # None /\ result[1].height <= h[1] THEN result
    ELSE Some([dir |-> dir, height |-> h[1]])

RECURSIVE find_ramp_target_from(_, _, _, _, _, _)
find_ramp_target_from(m, x, y, base, i, result) ==
    IF i > Len(ALL) THEN result
    ELSE find_ramp_target_from(m, x, y, base, i + 1,
            ramp_target_step(result, ALL[i],
                             ramp_neighbor_height(m, x, y, ALL[i], base)))

find_ramp_target(m, x, y, base) == find_ramp_target_from(m, x, y, base, 1, None)


\* variant: the explicit ramp_direction is not consulted
explicit_ramp_target_ignored(m, x, y, base) == None

\* the explicit ramp_direction, when its neighbour qualifies (terrain.rs 31-33)
explicit_ramp_target(m, x, y, base) ==
    LET rd == get(m, x, y).ramp_direction
    IN  IF rd = None THEN None
        ELSE LET h == ramp_neighbor_height(m, x, y, rd[1], base)
             IN  IF h = None THEN None
                 ELSE Some([dir |-> rd[1], height |-> h[1]])


\* variant: no scan when the explicit ramp_direction does not qualify
ramp_target_nofallback(m, x, y, base) ==
    IF get(m, x, y).ramp_direction = None THEN find_ramp_target(m, x, y, base)
    ELSE explicit_ramp_target(m, x, y, base)

\* the target of a Ramp tile: the explicit one, else the scan (terrain.rs 31-37)
ramp_target(m, x, y, base) ==
    LET target == explicit_ramp_target(m, x, y, base)
    IN  IF target = None THEN find_ramp_target(m, x, y, base) ELSE target


\* variant: East lowers a diagonal pair
lowered_corners_diagonal(dir) ==
    CASE dir = "North" -> {CORNER_NW, CORNER_NE}
      [] dir = "South" -> {CORNER_SW, CORNER_SE}
      [] dir = "West"  -> {CORNER_NW, CORNER_SW}
      [] dir = "East"  -> {CORNER_NE, CORNER_SW}

\* the two corners lowered for a target edge (terrain.rs 40-57)
lowered_corners(dir) ==
    CASE dir = "North" -> {CORNER_NW, CORNER_NE}
      [] dir = "South" -> {CORNER_SW, CORNER_SE}
      [] dir = "West"  -> {CORNER_NW, CORNER_SW}
      [] dir = "East"  -> {CORNER_NE, CORNER_SE}


\* variant: the tile's kind is not looked at
tile_corner_heights_anykind(m, x, y) ==
    LET tile == get(m, x, y)
        base == tile.elevation * TILE_HEIGHT
        target == ramp_target(m, x, y, base)
    IN  [c \in 0..3 |->
            IF target # None /\ c \in lowered_corners(target[1].dir)
            THEN target[1].height
            ELSE base]

tile_corner_heights(m, x, y) ==
    LET tile == get(m, x, y)
        base == tile.elevation * TILE_HEIGHT
        target == IF tile.kind = "Ramp" THEN ramp_target(m, x, y, base) ELSE None
    IN  [c \in 0..3 |->
            IF target # None /\ c \in lowered_corners(target[1].dir)
            THEN target[1].height
            ELSE base]

----------------------------------------------------------------------------
(* terrain.rs: mesh buffers *)

EPS == 1

Vec3(x, y, z) == [x |-> x, y |-> y, z |-> z]

sub(a, b) == Vec3(a.x - b.x, a.y - b.y, a.z - b.z)

cross(a, b) ==
    Vec3(a.y * b.z - a.z * b.y, a.z * b.x - a.x * b.z, a.x * b.y - a.y * b.x)

RECURSIVE gcd(_, _)
gcd(a, b) == IF b = 0 THEN a ELSE gcd(b, a % b)

\* Vec3::normalize_or_zero: the direction of v, kept exact as the shortest
\* integer vector along v (two vectors normalise alike iff these agree)
normalize_or_zero(v) ==
    LET g == gcd(gcd(Abs(v.x), Abs(v.y)), Abs(v.z))
    IN  IF g = 0 THEN Vec3(0, 0, 0) ELSE Vec3(v.x \div g, v.y \div g, v.z \div g)

\* MeshBuffers::default()
MeshBuffersDefault ==
    [positions |-> << >>, normals |-> << >>, uvs |-> << >>,
     tile_layers |-> None, indices |-> << >>, next_index |-> 0]

with_tile_types == [MeshBuffersDefault EXCEPT !.tile_layers = Some(<< >>)]

\* variant: next_index stays where it was
push_triangle_rewind(buf, a, b, c, ta, tb, tc) ==
    LET normal == normalize_or_zero(cross(sub(b, a), sub(c, a)))
    IN  [buf EXCEPT
            !.positions = @ \o <<a, b, c>>,
            !.normals = @ \o <<normal, normal, normal>>,
            !.uvs = @ \o <<ta, tb, tc>>,
            !.indices = @ \o <<buf.next_index, buf.next_index + 1, buf.next_index + 2>>]

\* MeshBuffers::push_triangle
push_triangle(buf, a, b, c, ta, tb, tc) ==
    LET normal == normalize_or_zero(cross(sub(b, a), sub(c, a)))
    IN  [buf EXCEPT
            !.positions = @ \o <<a, b, c>>,
            !.normals = @ \o <<normal, normal, normal>>,
            !.uvs = @ \o <<ta, tb, tc>>,
            !.indices = @ \o <<buf.next_index, buf.next_index + 1, buf.next_index + 2>>,
            !.next_index = @ + 3]

\* variant: the second triangle is cut off the other diagonal
push_quad_strip(buf, verts, tex, tile_info) ==
    LET b1 == push_triangle(buf, verts[1], verts[2], verts[3], tex[1], tex[2], tex[3])
        b2 == push_triangle(b1, verts[2], verts[3], verts[4], tex[2], tex[3], tex[4])
        info == IF tile_info = None THEN <<0, 0>> ELSE tile_info[1]
    IN  IF b2.tile_layers = None THEN b2
        ELSE [b2 EXCEPT !.tile_layers =
                 Some(@[1] \o <<info, info, info, info, info, info>>)]

\* the free function push_quad; verts and tex are 4-tuples, tile_info an Option
push_quad(buf, verts, tex, tile_info) ==
    LET b1 == push_triangle(buf, verts[1], verts[2], verts[3], tex[1], tex[2], tex[3])
        b2 == push_triangle(b1, verts[1], verts[3], verts[4], tex[1], tex[3], tex[4])
        info == IF tile_info = None THEN <<0, 0>> ELSE tile_info[1]
    IN  IF b2.tile_layers = None THEN b2
        ELSE [b2 EXCEPT !.tile_layers =
                 Some(@[1] \o <<info, info, info, info, info, info>>)]

\* tile_layer.map(|layer| [layer, seam_height])
tile_info_of(tile_layer, seam_height) ==
    IF tile_layer = None THEN None ELSE Some(<<tile_layer[1], seam_height>>)


\* variant: one closed end is enough to drop the face
side_face_degenerate_either(top_a, top_b, bottom_a, bottom_b) ==
    Abs(top_a.y - bottom_a.y) < EPS \/ Abs(top_b.y - bottom_b.y) < EPS

\* variant: no face is dropped
side_face_degenerate_never(top_a, top_b, bottom_a, bottom_b) == FALSE

\* the early return of add_side_face (terrain.rs 429-431)
side_face_degenerate(top_a, top_b, bottom_a, bottom_b) ==
    Abs(top_a.y - bottom_a.y) < EPS /\ Abs(top_b.y - bottom_b.y) < EPS

\* variant: the layer attribute of the face is the bottom tile's
add_side_face_bottom_layer(buf, top_a, top_b, bottom_a, bottom_b, direction, tile_layer, bottom_layer, seam_height) ==
    IF side_face_degenerate(top_a, top_b, bottom_a, bottom_b) THEN buf
    ELSE LET bottom_value == IF bottom_layer # None THEN bottom_layer[1]
                             ELSE IF tile_layer # None THEN tile_layer[1]
                             ELSE 0
             bottom_height == Min(bottom_a.y, bottom_b.y)
             t == <<bottom_value, bottom_height>>
         IN  push_quad(buf, <<top_a, top_b, bottom_b, bottom_a>>, <<t, t, t, t>>,
                       tile_info_of(Some(bottom_value), seam_height))

add_side_face(buf, top_a, top_b, bottom_a, bottom_b, direction, tile_layer, bottom_layer, seam_height) ==
    IF side_face_degenerate(top_a, top_b, bottom_a, bottom_b) THEN buf
    ELSE LET bottom_value == IF bottom_layer # None THEN bottom_layer[1]
                             ELSE IF tile_layer # None THEN tile_layer[1]
                             ELSE 0
             bottom_height == Min(bottom_a.y, bottom_b.y)
             t == <<bottom_value, bottom_height>>
         IN  push_quad(buf, <<top_a, top_b, bottom_b, bottom_a>>, <<t, t, t, t>>,
                       tile_info_of(tile_layer, seam_height))


\* variant: the missing neighbour lies one elevation step below the ground
boundary_heights_sunken == <<-TILE_HEIGHT, -TILE_HEIGHT>>

\* the height-0 pair used for a missing neighbour (terrain.rs 152, 174, 196, 218)
boundary_heights == <<0, 0>>

\* the neighbour's two corner heights on the shared edge, in the order
\* (bnw, bne) / (bsw, bse) / (bnw, bsw) / (bne, bse) of append_tile_geometry
neighbor_edge_heights(m, cc, x, y, dir) ==
    CASE dir = "North" ->
            IF y > 0
            THEN <<cc[idx(m, x, y - 1)][CORNER_SW], cc[idx(m, x, y - 1)][CORNER_SE]>>
            ELSE boundary_heights
      [] dir = "South" ->
            IF y + 1 < m.height
            THEN <<cc[idx(m, x, y + 1)][CORNER_NW], cc[idx(m, x, y + 1)][CORNER_NE]>>
            ELSE boundary_heights
      [] dir = "West" ->
            IF x > 0
            THEN <<cc[idx(m, x - 1, y)][CORNER_NE], cc[idx(m, x - 1, y)][CORNER_SE]>>
            ELSE boundary_heights
      [] dir = "East" ->
            IF x + 1 < m.width
            THEN <<cc[idx(m, x + 1, y)][CORNER_NW], cc[idx(m, x + 1, y)][CORNER_SW]>>
            ELSE boundary_heights

\* north_layer, south_layer, west_layer, east_layer of append_tile_geometry
neighbor_layer(m, x, y, dir) ==
    CASE dir = "North" ->
            IF y > 0 THEN Some(as_index(get(m, x, y - 1).tile_type)) ELSE None
      [] dir = "South" ->
            IF y + 1 < m.height THEN Some(as_index(get(m, x, y + 1).tile_type)) ELSE None
      [] dir = "West" ->
            IF x > 0 THEN Some(as_index(get(m, x - 1, y).tile_type)) ELSE None
      [] dir = "East" ->
            IF x + 1 < m.width THEN Some(as_index(get(m, x + 1, y).tile_type)) ELSE None


\* variant: the bottom is the neighbour's height, not clamped to the top
skirt_bottom_unclamped(b, top) == b

\* the bottom height of a skirt corner: b.min(top)
skirt_bottom(b, top) == Min(b, top)

append_tile_geometry(m, cc, x, y, buffer, tile_layer) ==
    LET corners == cc[idx(m, x, y)]
        x0 == x * TILE_SIZE
        x1 == x0 + TILE_SIZE
        z0 == y * TILE_SIZE
        z1 == z0 + TILE_SIZE
        nw == Vec3(x0, corners[CORNER_NW], z0)
        ne == Vec3(x1, corners[CORNER_NE], z0)
        sw == Vec3(x0, corners[CORNER_SW], z1)
        se == Vec3(x1, corners[CORNER_SE], z1)
        top_height == Max(Max(corners[0], corners[1]), Max(corners[2], corners[3]))
        zero == <<0, 0>>
        b0 == push_quad(buffer, <<nw, sw, se, ne>>, <<zero, zero, zero, zero>>,
                        tile_info_of(tile_layer, top_height))
        n == neighbor_edge_heights(m, cc, x, y, "North")
        b1 == add_side_face(b0, nw, ne,
                            Vec3(x0, skirt_bottom(n[1], nw.y), z0),
                            Vec3(x1, skirt_bottom(n[2], ne.y), z0),
                            "North", tile_layer, neighbor_layer(m, x, y, "North"),
                            Max(nw.y, ne.y))
        s == neighbor_edge_heights(m, cc, x, y, "South")
        b2 == add_side_face(b1, se, sw,
                            Vec3(x1, skirt_bottom(s[2], se.y), z1),
                            Vec3(x0, skirt_bottom(s[1], sw.y), z1),
                            "South", tile_layer, neighbor_layer(m, x, y, "South"),
                            Max(se.y, sw.y))
        w == neighbor_edge_heights(m, cc, x, y, "West")
        b3 == add_side_face(b2, sw, nw,
                            Vec3(x0, skirt_bottom(w[2], sw.y), z1),
                            Vec3(x0, skirt_bottom(w[1], nw.y), z0),
                            "West", tile_layer, neighbor_layer(m, x, y, "West"),
                            Max(sw.y, nw.y))
        e == neighbor_edge_heights(m, cc, x, y, "East")
    IN  add_side_face(b3, ne, se,
                      Vec3(x1, skirt_bottom(e[1], ne.y), z0),
                      Vec3(x1, skirt_bottom(e[2], se.y), z1),
                      "East", tile_layer, neighbor_layer(m, x, y, "East"),
                      Max(ne.y, se.y))

\* the first loop of populate_mesh_buffers (terrain.rs 95-101)
build_corner_cache(m) ==
    [i \in 0..(m.width * m.height - 1) |->
        tile_corner_heights(m, i % m.width, i \div m.width)]

\* the second loop, combined buffer only, from tile number i on (row-major)
RECURSIVE populate_combined_from(_, _, _, _)
populate_combined_from(m, cc, i, buffer) ==
    IF i >= m.width * m.height THEN buffer
    ELSE LET x == i % m.width
             y == i \div m.width
             tile_layer == Some(as_index(get(m, x, y).tile_type))
         IN  populate_combined_from(m, cc, i + 1,
                 append_tile_geometry(m, cc, x, y, buffer, tile_layer))

\* populate_mesh_buffers(map, None, Some(&mut buffer)): the corner cache it
\* computed (None on the early return) and the buffer it filled
populate_mesh_buffers_combined(m, buffer) ==
    IF m.width = 0 \/ m.height = 0
    THEN [corner_cache |-> None, buffer |-> buffer]
    ELSE LET cc == build_corner_cache(m)
         IN  [corner_cache |-> Some(cc),
              buffer |-> populate_combined_from(m, cc, 0, buffer)]

\* empty_mesh(): no attribute and no indices
empty_mesh ==
    [position |-> None, normal |-> None, uv0 |-> None, uv1 |-> None, indices |-> None]

\* MeshBuffers::into_mesh
into_mesh(buf) ==
    [position |-> Some(buf.positions),
     normal |-> Some(buf.normals),
     uv0 |-> Some(buf.uvs),
     uv1 |-> IF buf.tile_layers # None /\ buf.tile_layers[1] # << >>
             THEN Some(buf.tile_layers[1]) ELSE None,
     indices |-> IF buf.indices # << >> THEN Some(buf.indices) ELSE None]

----------------------------------------------------------------------------
(* terrain.rs: mod splatmap.  An Image is its texture_descriptor (size,      *)
(* format, mip_level_count, usage), its sampler and its data, a sequence of  *)
(* bytes; data[k + 1] is the byte at offset k.                                *)

CHANNELS == 4

extent_from_map(m) ==
    [width |-> Max(m.width, 1), height |-> Max(m.height, 1), depth_or_array_layers |-> 1]

\* Image::new_fill(size, TextureDimension::D2, pixel, format, ..): the pixel
\* repeated once per texel of size
new_fill(size, pixel, format) ==
    [texture_descriptor |-> [size |-> size, format |-> format,
                             mip_level_count |-> 1, usage |-> "default"],
     sampler |-> "Default",
     data |-> [k \in 1..(size.width * size.height * size.depth_or_array_layers * Len(pixel))
                  |-> pixel[((k - 1) % Len(pixel)) + 1]]]

configure_image(img) ==
    [img EXCEPT !.texture_descriptor.mip_level_count = 1,
                !.texture_descriptor.usage = "TEXTURE_BINDING | COPY_DST",
                !.sampler = "Descriptor(Linear, Linear, Nearest, ClampToEdge)"]

\* Vec::resize(new_len, value)
resize(data, new_len, value) ==
    [k \in 1..new_len |-> IF k <= Len(data) THEN data[k] ELSE value]

\* Vec::fill(value)
fill(data, value) == [k \in 1..Len(data) |-> value]


\* variant: the channels up to the tile's layer are all set
splat_pixel_upto(m, x, y) ==
    LET layer == as_index(get(m, x, y).tile_type)
    IN  [c \in 1..CHANNELS |-> IF c - 1 <= layer THEN 255 ELSE 0]

\* the pixel of tile (x, y) (terrain.rs 514-519)
splat_pixel(m, x, y) ==
    LET layer == as_index(get(m, x, y).tile_type)
    IN  [c \in 1..CHANNELS |-> IF layer < CHANNELS /\ c - 1 = layer THEN 255 ELSE 0]

\* image.data[idx..idx + CHANNELS].copy_from_slice(&pixel)
copy_from_slice(data, at, pixel) ==
    [k \in 1..Len(data) |->
        IF k - 1 >= at /\ k - 1 < at + Len(pixel) THEN pixel[k - at] ELSE data[k]]

\* the loop of write over the tiles, row-major, from tile number i on
RECURSIVE write_tiles_from(_, _, _, _)
write_tiles_from(m, width, i, data) ==
    IF i >= m.width * m.height THEN data
    ELSE LET x == i % m.width
             y == i \div m.width
             at == (y * width + x) * CHANNELS
         IN  write_tiles_from(m, width, i + 1,
                              copy_from_slice(data, at, splat_pixel(m, x, y)))

\* write from `configure_image(image)` on: the buffer rewritten in place
write_in_place(m, img) ==
    LET extent == extent_from_map(m)
        configured == configure_image(img)
        width == extent.width
        required_len == width * extent.height * CHANNELS
        sized == IF Len(configured.data) # required_len
                 THEN resize(configured.data, required_len, 0)
                 ELSE configured.data
    IN  IF m.width = 0 \/ m.height = 0
        THEN [configured EXCEPT !.data = fill(sized, 0)]
        ELSE [configured EXCEPT !.data = write_tiles_from(m, width, 0, sized)]

\* variant: the image is allocated in the sRGB format
fresh_image_srgb(m) ==
    configure_image(new_fill(extent_from_map(m), <<0, 0, 0, 0>>, "Rgba8UnormSrgb"))

\* the image create allocates and configures before it calls write
fresh_image(m) ==
    configure_image(new_fill(extent_from_map(m), <<0, 0, 0, 0>>, "Rgba8Unorm"))

\* the check write opens with: the image has the extent and the format asked for
reusable(m, img) ==
    /\ img.texture_descriptor.size = extent_from_map(m)
    /\ img.texture_descriptor.format = "Rgba8Unorm"

\* splatmap::create; its call of write finds the size and format it just set
create(m) ==
    write_in_place(m,
        configure_image(new_fill(extent_from_map(m), <<0, 0, 0, 0>>, "Rgba8Unorm")))


\* variant: only the size decides whether the buffer is reused
write_any_format(m, img) ==
    IF img.texture_descriptor.size # extent_from_map(m) THEN create(m)
    ELSE write_in_place(m, img)

\* splatmap::write
write(m, img) ==
    IF \/ img.texture_descriptor.size # extent_from_map(m)
       \/ img.texture_descriptor.format # "Rgba8Unorm"
    THEN create(m)
    ELSE write_in_place(m, img)

----------------------------------------------------------------------------
(* terrain.rs: the builds *)

build_combined_mesh(m) == into_mesh(populate_mesh_buffers_combined(m, with_tile_types).buffer)

\* HashMap::new()
HashMapNew == [t \in {} |-> MeshBuffersDefault]

\* variant: the entry is made anew on every call
entry_insert_default(buffers, tile_type) ==
    [t \in DOMAIN buffers \cup {tile_type} |->
        IF t = tile_type THEN MeshBuffersDefault ELSE buffers[t]]

\* buffers.entry(tile_type).or_default(): the map with the entry present
entry_or_default(buffers, tile_type) ==
    IF tile_type \in DOMAIN buffers THEN buffers
    ELSE [t \in DOMAIN buffers \cup {tile_type} |->
            IF t = tile_type THEN MeshBuffersDefault ELSE buffers[t]]

\* the second loop of populate_mesh_buffers, per_type only, from tile number
\* i on (row-major)
RECURSIVE populate_per_type_from(_, _, _, _)
populate_per_type_from(m, cc, i, buffers) ==
    IF i >= m.width * m.height THEN buffers
    ELSE LET x == i % m.width
             y == i \div m.width
             tile_type == get(m, x, y).tile_type
             present == entry_or_default(buffers, tile_type)
         IN  populate_per_type_from(m, cc, i + 1,
                 [present EXCEPT ![tile_type] =
                     append_tile_geometry(m, cc, x, y, @, None)])

\* populate_mesh_buffers(map, Some(&mut buffers), None)
populate_mesh_buffers_per_type(m, buffers) ==
    IF m.width = 0 \/ m.height = 0 THEN buffers
    ELSE populate_per_type_from(m, build_corner_cache(m), 0, buffers)

\* the orders in which into_iter() can yield the keys of a HashMap
IterationOrders(keys) ==
    {o \in [1..Cardinality(keys) -> keys] :
        \A j \in DOMAIN o, k \in DOMAIN o : j # k => o[j] # o[k]}

\* variant: the pairs are kept as the Vec the iterator yields
collect_vec(pairs) == pairs

\* collect::<HashMap<_, _>>() of a sequence of (key, value) pairs
collect(pairs) ==
    [t \in {pairs[k][1] : k \in DOMAIN pairs} |->
        LET last == CHOOSE k \in DOMAIN pairs :
                        /\ pairs[k][1] = t
                        /\ \A j \in DOMAIN pairs : pairs[j][1] = t => j <= k
        IN  pairs[last][2]]

\* build_map_meshes, with the order in which buffers.into_iter() yields
build_map_meshes(m, order) ==
    LET buffers == populate_mesh_buffers_per_type(m, HashMapNew)
    IN  collect([k \in DOMAIN order |-> <<order[k], into_mesh(buffers[order[k]])>>])

\* terrain::build_terrain_mesh and terrain::build_splatmap, which editor.rs
\* calls: the combined mesh and the one-hot image of the grid
build_terrain_mesh(m) == build_combined_mesh(m)

build_splatmap(m) == create(m)

----------------------------------------------------------------------------
(* editor.rs.  st is the EditorState without its map, which is passed next  *)
(* to it; a system returns the state and the map it leaves.                  *)

EditorStateDefault ==
    [current_tool |-> "Paint", current_kind |-> "Floor", current_elev |-> 0,
     hover |-> None, map_dirty |-> TRUE]

\* TileMap::get and TileMap::set index tiles by y * width + x and panic when
\* that is past the end of the vector
indexable(m, x, y) == idx(m, x, y) < m.width * m.height

ramp_targets(m, x, y, base) ==
    LET qualifies(dir) ==
            LET nx == x + offset(dir)[1]
                ny == y + offset(dir)[2]
            IN  IF nx < 0 \/ ny < 0 THEN FALSE
                ELSE IF nx >= m.width \/ ny >= m.height THEN FALSE
                ELSE get(m, nx, ny).elevation * TILE_HEIGHT < base
    IN  SelectSeq(ALL, qualifies)

contains(seq, v) == \E k \in 1..Len(seq) : seq[k] = v

first(seq) == IF seq = << >> THEN None ELSE Some(seq[1])

\* target_ramp_direction of paint_tiles (editor.rs 246-260)
target_ramp_direction(m, x, y, kind, elevation) ==
    IF kind = "Ramp"
    THEN LET candidates == ramp_targets(m, x, y, elevation * TILE_HEIGHT)
             existing == get(m, x, y).ramp_direction
         IN  IF existing # None /\ contains(candidates, existing[1]) THEN existing
             ELSE first(candidates)
    ELSE None


\* variant: the tile is stored without raising map_dirty
paint_tiles_silent(st, m) ==
    IF st.current_tool # "Paint" \/ st.hover = None THEN [state |-> st, map |-> m]
    ELSE LET x == st.hover[1][1]
             y == st.hover[1][2]
             current == get(m, x, y)
             dir == target_ramp_direction(m, x, y, st.current_kind, st.current_elev)
         IN  [state |-> st,
              map |-> set(m, x, y, Tile(st.current_kind, current.tile_type, x, y,
                                        st.current_elev, dir))]

\* paint_tiles with the left button down and the pointer off the toolbar
paint_tiles(st, m) ==
    IF st.current_tool # "Paint" \/ st.hover = None THEN [state |-> st, map |-> m]
    ELSE LET x == st.hover[1][1]
             y == st.hover[1][2]
             kind == st.current_kind
             elevation == st.current_elev
             current == get(m, x, y)
             dir == target_ramp_direction(m, x, y, kind, elevation)
         IN  IF \/ current.kind # kind
                \/ current.elevation # elevation
                \/ current.ramp_direction # dir
                \/ current.tile_type # current.tile_type
             THEN [state |-> [st EXCEPT !.map_dirty = TRUE],
                   map |-> set(m, x, y, Tile(kind, current.tile_type, x, y, elevation, dir))]
             ELSE [state |-> st, map |-> m]

\* position of v in seq (Iterator::position), None when absent
position(seq, v) ==
    IF contains(seq, v) THEN Some(CHOOSE k \in 1..Len(seq) : seq[k] = v /\ \A j \in 1..(k - 1) : seq[j] # v)
    ELSE None


\* variant: every click selects the first candidate
rotate_ramps_restart(st, m) ==
    IF st.current_tool # "RotateRamp" \/ st.hover = None THEN [state |-> st, map |-> m]
    ELSE LET x == st.hover[1][1]
             y == st.hover[1][2]
             base_tile == get(m, x, y)
             candidates == ramp_targets(m, x, y, base_tile.elevation * TILE_HEIGHT)
         IN  IF base_tile.kind # "Ramp" \/ candidates = << >> THEN [state |-> st, map |-> m]
             ELSE LET at == IF base_tile.ramp_direction = None THEN None
                            ELSE position(candidates, base_tile.ramp_direction[1])
                      next_direction == candidates[1]
                  IN  IF base_tile.ramp_direction = Some(next_direction)
                      THEN [state |-> st, map |-> m]
                      ELSE [state |-> [st EXCEPT !.map_dirty = TRUE],
                            map |-> set(m, x, y,
                                        [base_tile EXCEPT !.ramp_direction = Some(next_direction)])]

\* rotate_ramps with the left button just pressed and the pointer off the toolbar
rotate_ramps(st, m) ==
    IF st.current_tool # "RotateRamp" \/ st.hover = None THEN [state |-> st, map |-> m]
    ELSE LET x == st.hover[1][1]
             y == st.hover[1][2]
             base_tile == get(m, x, y)
             candidates == ramp_targets(m, x, y, base_tile.elevation * TILE_HEIGHT)
         IN  IF base_tile.kind # "Ramp" \/ candidates = << >> THEN [state |-> st, map |-> m]
             ELSE LET at == IF base_tile.ramp_direction = None THEN None
                            ELSE position(candidates, base_tile.ramp_direction[1])
                      next_direction == IF at = None THEN candidates[1]
                                        ELSE candidates[(at[1] % Len(candidates)) + 1]
                  IN  IF base_tile.ramp_direction = Some(next_direction)
                      THEN [state |-> st, map |-> m]
                      ELSE [state |-> [st EXCEPT !.map_dirty = TRUE],
                            map |-> set(m, x, y,
                                        [base_tile EXCEPT !.ramp_direction = Some(next_direction)])]

\* (a / b).floor() for b # 0
floor_div(a, b) == IF b > 0 THEN a \div b ELSE (-a) \div (-b)

\* the tile column and row under the point where the ray's line meets the
\* plane y = h: origin + direction * ((h - origin.y) / direction.y), each of x
\* and z divided by TILE_SIZE and floored
plane_tile(ray, h) ==
    LET o == ray.origin
        d == ray.direction
    IN  <<floor_div(o.x * d.y + d.x * (h - o.y), d.y * TILE_SIZE),
          floor_div(o.z * d.y + d.z * (h - o.y), d.y * TILE_SIZE)>>

\* variant: the refined tile is taken whether or not it is the flat one
refined_accepted_always(ray, elev, tx, ty) ==
    (elev - ray.origin.y) * ray.direction.y > 0

\* step 2 of update_hover: t is finite and positive and the hit at the tile's
\* elevation resolves to the same tile coordinates
refined_accepted(ray, elev, tx, ty) ==
    /\ (elev - ray.origin.y) * ray.direction.y > 0
    /\ plane_tile(ray, elev) = <<tx, ty>>

\* update_hover: the hover it stores and the return it left by.  ray is what
\* viewport_to_world gave, None or a ray whose direction.y is not 0
update_hover(st, m, wants_pointer_input, cursor_position, ray) ==
    IF wants_pointer_input THEN [state |-> [st EXCEPT !.hover = None], via |-> "ui"]
    ELSE IF cursor_position = None
    THEN [state |-> [st EXCEPT !.hover = None], via |-> "no cursor"]
    ELSE IF ray = None THEN [state |-> [st EXCEPT !.hover = None], via |-> "nothing hit"]
    ELSE LET guess == plane_tile(ray[1], 0)
             tx == guess[1]
             ty == guess[2]
         IN  IF tx >= 0 /\ ty >= 0 /\ tx < m.width /\ ty < m.height
             THEN LET elev == m.tiles[ty * m.width + tx].elevation * TILE_HEIGHT
                  IN  IF refined_accepted(ray[1], elev, tx, ty)
                      THEN [state |-> [st EXCEPT !.hover = Some(plane_tile(ray[1], elev))],
                            via |-> "elevated"]
                      ELSE [state |-> [st EXCEPT !.hover = Some(<<tx, ty>>)],
                            via |-> "flat"]
             ELSE [state |-> [st EXCEPT !.hover = None], via |-> "nothing hit"]

----------------------------------------------------------------------------
(* runtime.rs.  The RuntimeTerrainVisual and RuntimeSplatMap resources exist *)
(* from Startup on, so the Option<Res<..>> parameters are never None.         *)

\* setup_runtime_mesh: the mesh asset, the splat image asset and the size in
\* RuntimeSplatMap
setup_runtime_mesh(m) ==
    [mesh |-> empty_mesh,
     image |-> create(m),
     size |-> <<Max(m.width, 1), Max(m.height, 1)>>]

\* rebuild_runtime_mesh: the mesh asset it leaves
rebuild_runtime_mesh(st, m, existing) ==
    IF ~ st.map_dirty THEN existing
    ELSE build_combined_mesh(m)

\* generate_splat_map: the image asset and the size it leaves
generate_splat_map(st, m, img, size) ==
    IF ~ st.map_dirty THEN [image |-> img, size |-> size]
    ELSE [image |-> write(m, img),
          size |-> <<Max(m.width, 1), Max(m.height, 1)>>]

----------------------------------------------------------------------------
(* texture/registry.rs.  A TerrainTextureEntry is its tile_type and the      *)
(* handles of its preview, normal and roughness images; a handle is the path *)
(* it was loaded from.  lookup maps a tile type to an index into entries,    *)
(* counted from 0.  A texture array is the sequence of its layers.           *)

\* TileType::ALL, in the order of as_index
TileTypeALL == <<"Grass", "Dirt", "Cliff", "Water">>

\* TerrainTextureRegistry::default()
TerrainTextureRegistryDefault ==
    [entries |-> << >>, lookup |-> [t \in {} |-> 0],
     base_color_array |-> None, normal_array |-> None, roughness_array |-> None,
     wall_texture |-> None]

\* HashMap::insert
insert(h, key, value) == [k \in DOMAIN h \cup {key} |-> IF k = key THEN value ELSE h[k]]

\* variant: the entry is pushed whether its tile type is registered or not
register_loaded_push(reg, entry) ==
    [reg EXCEPT !.lookup = insert(reg.lookup, entry.tile_type, Len(reg.entries)),
                !.entries = Append(reg.entries, entry),
                !.base_color_array = None,
                !.normal_array = None,
                !.roughness_array = None]

\* TerrainTextureRegistry::register_wall_texture
register_wall_texture(reg, entry) == [reg EXCEPT !.wall_texture = Some(entry)]

\* TerrainTextureRegistry::register_loaded
register_loaded(reg, entry) ==
    LET placed ==
            IF entry.tile_type \in DOMAIN reg.lookup
            THEN [reg EXCEPT !.entries[reg.lookup[entry.tile_type] + 1] = entry]
            ELSE [reg EXCEPT !.lookup = insert(reg.lookup, entry.tile_type, Len(reg.entries)),
                             !.entries = Append(reg.entries, entry)]
    IN  [placed EXCEPT !.base_color_array = None,
                       !.normal_array = None,
                       !.roughness_array = None]

\* the entry of each tile type of TileType::ALL in turn, None when lookup or
\* entries lacks one (the ? of the loops)
entries_of_all(entries, lookup) ==
    IF \A k \in 1..Len(TileTypeALL) :
           /\ TileTypeALL[k] \in DOMAIN lookup
           /\ lookup[TileTypeALL[k]] < Len(entries)
    THEN Some([k \in 1..Len(TileTypeALL) |-> entries[lookup[TileTypeALL[k]] + 1]])
    ELSE None

\* ensure_base_color_array; loaded: images holds every source image, of one
\* size and format.  Returns the cache and the handle returned.
ensure_base_color_array(entries, lookup, loaded, cache) ==
    IF cache # None THEN [cache |-> cache, handle |-> cache]
    ELSE LET all == entries_of_all(entries, lookup)
         IN  IF all = None \/ ~ loaded THEN [cache |-> None, handle |-> None]
             ELSE LET array == Some([k \in 1..Len(all[1]) |-> all[1][k].preview])
                  IN  [cache |-> array, handle |-> array]

\* ensure_optional_array; field names the image the accessor reads, and a
\* tile type without it gets a fallback layer
ensure_optional_array(entries, lookup, loaded, cache, field) ==
    IF cache # None THEN [cache |-> cache, handle |-> cache]
    ELSE LET all == entries_of_all(entries, lookup)
         IN  IF all = None THEN [cache |-> None, handle |-> None]
             ELSE IF \A k \in 1..Len(all[1]) : all[1][k][field] = None
             THEN [cache |-> None, handle |-> None]
             ELSE IF ~ loaded THEN [cache |-> None, handle |-> None]
             ELSE LET array == Some([k \in 1..Len(all[1]) |->
                                        IF all[1][k][field] = None THEN "fallback"
                                        ELSE all[1][k][field][1]])
                  IN  [cache |-> array, handle |-> array]

\* TerrainTextureRegistry::ensure_texture_arrays
ensure_texture_arrays(reg, loaded) ==
    LET base_color == ensure_base_color_array(reg.entries, reg.lookup, loaded, reg.base_color_array)
        with_base == [reg EXCEPT !.base_color_array = base_color.cache]
    IN  IF base_color.handle = None THEN [registry |-> with_base, returned |-> None]
        ELSE LET normal == ensure_optional_array(reg.entries, reg.lookup, loaded, reg.normal_array, "normal")
                 roughness == ensure_optional_array(reg.entries, reg.lookup, loaded, reg.roughness_array, "roughness")
             IN  [registry |-> [with_base EXCEPT !.normal_array = normal.cache,
                                                  !.roughness_array = roughness.cache],
                  returned |-> Some(<<base_color.handle[1], normal.handle, roughness.handle>>)]

----------------------------------------------------------------------------
(* runtime.rs: update_runtime_material.  st holds what the system is handed: *)
(* textures (the registry), asset_server (the load state of each image       *)
(* handle), images_ready (Assets<Image> holds every source image, of one     *)
(* size and format), material (the runtime TerrainMaterial's extension, None *)
(* when the asset is gone), splat (the RuntimeSplatMap), runtime (whether    *)
(* RuntimeTerrainVisual exists) and visibility (the entity's Visibility,     *)
(* None when the query does not find it).                                    *)

\* TerrainMaterialExtension of create_runtime_material
RuntimeMaterialDefault ==
    [layer_count |-> 0, base_color_array |-> None, normal_array |-> None,
     roughness_array |-> None, splat_map |-> None, wall_base_color |-> None,
     wall_normal |-> None, wall_roughness |-> None, map_size |-> None]

\* variant: a failed load is passed over
check_handle_state_forgiving(asset_server, id, encountered_failure) ==
    [waiting |-> asset_server[id] \notin {"Loaded", "Failed"},
     encountered_failure |-> encountered_failure]

\* check_handle_state and check_image_handle_state: whether to wait for the
\* handle, and encountered_failure after the call (a state that is neither
\* Loaded nor Failed, or no state at all, waits)
check_handle_state(asset_server, id, encountered_failure) ==
    CASE asset_server[id] = "Loaded" -> [waiting |-> FALSE, encountered_failure |-> encountered_failure]
      [] asset_server[id] = "Failed" -> [waiting |-> FALSE, encountered_failure |-> TRUE]
      [] OTHER -> [waiting |-> TRUE, encountered_failure |-> encountered_failure]

\* the handles an entry makes the system check: preview (base_color of the
\* wall texture), then normal and roughness when present
handles_of(preview, normal, roughness) ==
    <<preview>> \o (IF normal = None THEN << >> ELSE <<normal[1]>>)
                \o (IF roughness = None THEN << >> ELSE <<roughness[1]>>)

\* the handles checked from the k-th entry of the registry on, and then those
\* of the wall texture
RECURSIVE checked_handles_from(_, _)
checked_handles_from(reg, k) ==
    IF k > Len(reg.entries)
    THEN IF reg.wall_texture = None THEN << >>
         ELSE handles_of(reg.wall_texture[1].base_color, reg.wall_texture[1].normal,
                         reg.wall_texture[1].roughness)
    ELSE handles_of(reg.entries[k].preview, reg.entries[k].normal, reg.entries[k].roughness)
             \o checked_handles_from(reg, k + 1)

\* the two flags after the loops over the registry (runtime.rs 135-196)
RECURSIVE check_all(_, _, _, _)
check_all(asset_server, handles, k, flags) ==
    IF k > Len(handles) THEN flags
    ELSE LET r == check_handle_state(asset_server, handles[k], flags.encountered_failure)
         IN  check_all(asset_server, handles, k + 1,
                       [waiting_for_textures |-> flags.waiting_for_textures \/ r.waiting,
                        encountered_failure |-> r.encountered_failure])

\* TerrainTextureRegistry::ensure_wall_texture_arrays; assembled is whether
\* the arrays of the wall texture could be put together
ensure_wall_texture_arrays(reg, assembled) ==
    IF reg.wall_texture = None \/ ~ assembled THEN None
    ELSE Some(<<<<reg.wall_texture[1].base_color>>,
                IF reg.wall_texture[1].normal = None THEN None
                ELSE Some(<<reg.wall_texture[1].normal[1]>>),
                IF reg.wall_texture[1].roughness = None THEN None
                ELSE Some(<<reg.wall_texture[1].roughness[1]>>)>>)

\* update_runtime_material: the state it leaves and the return it left by
update_runtime_material(st, wall_assembled) ==
    IF ~ st.runtime THEN [state |-> st, via |-> "no runtime"]
    ELSE IF st.visibility = None THEN [state |-> st, via |-> "no visibility"]
    ELSE LET hidden == [st EXCEPT !.visibility = Some("Hidden")]
             flags == check_all(st.asset_server, checked_handles_from(st.textures, 1), 1,
                                [waiting_for_textures |-> FALSE, encountered_failure |-> FALSE])
         IN  IF flags.encountered_failure THEN [state |-> hidden, via |-> "failure"]
             ELSE IF flags.waiting_for_textures THEN [state |-> hidden, via |-> "waiting"]
             ELSE IF st.material = None THEN [state |-> hidden, via |-> "no material"]
             ELSE IF st.splat = None THEN [state |-> hidden, via |-> "no splat"]
             ELSE LET ensured == ensure_texture_arrays(st.textures, st.images_ready)
                      kept == [hidden EXCEPT !.textures = ensured.registry]
                  IN  IF ensured.returned = None THEN [state |-> kept, via |-> "no arrays"]
                      ELSE LET base_handle == ensured.returned[1][1]
                               desired_layers == Len(base_handle)
                               material == [st.material[1] EXCEPT
                                               !.layer_count = desired_layers,
                                               !.base_color_array = Some(base_handle),
                                               !.normal_array = ensured.returned[1][2],
                                               !.roughness_array = ensured.returned[1][3],
                                               !.splat_map = Some(st.splat[1].handle)]
                               has_wall_texture == st.textures.wall_texture # None
                               wall_arrays == IF has_wall_texture
                                              THEN ensure_wall_texture_arrays(st.textures, wall_assembled)
                                              ELSE None
                           IN  IF desired_layers = 0 THEN [state |-> kept, via |-> "no layers"]
                               ELSE IF has_wall_texture /\ wall_arrays = None
                               THEN [state |-> [kept EXCEPT !.material = Some(material)],
                                     via |-> "no wall arrays"]
                               ELSE [state |->
                                        [kept EXCEPT
                                            !.visibility = Some("Visible"),
                                            !.material = Some(
                                                [material EXCEPT
                                                    !.wall_base_color =
                                                        IF has_wall_texture THEN Some(wall_arrays[1][1]) ELSE None,
                                                    !.wall_normal =
                                                        IF has_wall_texture THEN wall_arrays[1][2] ELSE None,
                                                    !.wall_roughness =
                                                        IF has_wall_texture THEN wall_arrays[1][3] ELSE None,
                                                    !.map_size = Some(st.splat[1].size)])],
                                     via |-> "shown"]

----------------------------------------------------------------------------
(* The maps handed to the resolver and the builder: grids as load_map can   *)
(* return them or painting can leave them.  Each is a TileMap::new(w, h) in  *)
(* which one tile holds any kind, elevation and ramp_direction, and the      *)
(* tiles next to it hold any elevations and one common kind.                 *)

\* EditorState::current_elev's documented lowest step (editor.rs 41)
MinElev == -1

Elevations == MinElev..MaxElev

OptionalDirections == {None} \cup {Some(d) : d \in RampDirections}

TileChoices == [kind : TileKinds, elevation : Elevations, ramp_direction : OptionalDirections]

\* the position next to (x, y) in direction ALL[d]
NextTo(x, y, d) == <<x + offset(ALL[d])[1], y + offset(ALL[d])[2]>>

\* TileMap::new(w, h) with tile p replaced by t and the tile next to p in
\* direction ALL[d] by a tile of kind nk at elevation ne[d]
FocusMap(w, h, p, t, nk, ne) ==
    [width |-> w, height |-> h,
     tiles |-> [i \in 0..(w * h - 1) |->
                  LET x == i % w
                      y == i \div w
                  IN  IF <<x, y>> = p
                      THEN Tile(t.kind, "Grass", x, y, t.elevation, t.ramp_direction)
                      ELSE IF \E d \in 1..4 : <<x, y>> = NextTo(p[1], p[2], d)
                      THEN Tile(nk, "Grass", x, y,
                                ne[CHOOSE d \in 1..4 : <<x, y>> = NextTo(p[1], p[2], d)],
                                None)
                      ELSE TileMapNew(w, h).tiles[i]]]

\* map is one of these grids, of at most maxTiles tiles
MapIsInput(maxTiles) ==
    \E w \in 0..MaxW, h \in 0..MaxH :
        /\ w * h <= maxTiles
        /\ \/ w * h = 0 /\ map = TileMapNew(w, h)
           \/ \E p \in (0..(w - 1)) \X (0..(h - 1)) :
                 \E t \in TileChoices, nk \in TileKinds, ne \in [1..4 -> Elevations] :
                    /\ \A d \in 1..4 :
                          (\/ NextTo(p[1], p[2], d)[1] \notin 0..(w - 1)
                           \/ NextTo(p[1], p[2], d)[2] \notin 0..(h - 1)) => ne[d] = 0
                    /\ map = FocusMap(w, h, p, t, nk, ne)

----------------------------------------------------------------------------
(* The corner height resolver on its own: tile_corner_heights applied to    *)
(* every tile of a grid.                                                     *)

\* nothing but the grid exists yet
Unbuilt ==
    /\ corner_cache = None
    /\ mesh = None
    /\ per_type = None
    /\ again = None
    /\ image = None
    /\ app = None
    /\ pc = None

InitCorners ==
    /\ MapIsInput(MaxTiles)
    /\ Unbuilt

\* tile_corner_heights(&map, x, y) for every tile (x, y), as the first loop of
\* populate_mesh_buffers and draw_hover_highlight call it
ResolveCorners ==
    /\ corner_cache = None
    /\ corner_cache' = Some(build_corner_cache(map))
    /\ UNCHANGED <<map, mesh, per_type, again, image, app, pc>>

NextCorners == ResolveCorners

SpecCorners == InitCorners /\ [][NextCorners]_vars

----------------------------------------------------------------------------
(* The mesh builder: build_combined_mesh on a grid.                          *)

Init ==
    /\ MapIsInput(MaxMeshTiles)
    /\ Unbuilt

\* build_combined_mesh(&map), with the corner cache it went through
BuildCombinedMesh ==
    /\ mesh = None
    /\ LET r == populate_mesh_buffers_combined(map, with_tile_types)
       IN  /\ corner_cache' = r.corner_cache
           /\ mesh' = Some(into_mesh(r.buffer))
    /\ UNCHANGED <<map, per_type, again, image, app, pc>>

Next == BuildCombinedMesh

Spec == Init /\ [][Next]_vars

----------------------------------------------------------------------------
(* The mesh builder on painted grids: one tile of any tile_type, kind and   *)
(* elevation, its neighbours of one other tile_type, kind and elevation.     *)

\* FocusMap(w, h, p, t, nk, ne) with tile p of tile_type tt and the tiles next
\* to it of tile_type nt
TypedFocusMap(w, h, p, t, nk, ne, tt, nt) ==
    LET m == FocusMap(w, h, p, t, nk, ne)
    IN  [m EXCEPT !.tiles =
            [i \in 0..(w * h - 1) |->
                IF <<i % w, i \div w>> = p THEN [m.tiles[i] EXCEPT !.tile_type = tt]
                ELSE IF \E d \in 1..4 : <<i % w, i \div w>> = NextTo(p[1], p[2], d)
                THEN [m.tiles[i] EXCEPT !.tile_type = nt]
                ELSE m.tiles[i]]]

\* map is one of these grids, of at least 1 and at most maxTiles tiles
MapIsTyped(maxTiles) ==
    \E w \in 1..MaxW, h \in 1..MaxH :
        /\ w * h <= maxTiles
        /\ \E p \in (0..(w - 1)) \X (0..(h - 1)) :
              \E k \in TileKinds, e \in Elevations, nk \in TileKinds, n \in Elevations :
                 \E tt \in TileTypes, nt \in TileTypes :
                    map = TypedFocusMap(w, h, p,
                              [kind |-> k, elevation |-> e, ramp_direction |-> None],
                              nk, [d \in 1..4 |-> n], tt, nt)

InitLayers ==
    /\ MapIsTyped(MaxMeshTiles)
    /\ Unbuilt

SpecLayers == InitLayers /\ [][Next]_vars

----------------------------------------------------------------------------
(* The splat encoder: splatmap::create, and splatmap::write on an image      *)
(* that already exists.                                                       *)

\* map is a grid of any size within the bounds, empty ones included, painted
\* with one tile of tile_type tt and its neighbours of tile_type nt
MapIsPainted ==
    \E w \in 0..MaxW, h \in 0..MaxH :
        \/ w * h = 0 /\ map = TileMapNew(w, h)
        \/ \E p \in (0..(w - 1)) \X (0..(h - 1)) : \E tt \in TileTypes, nt \in TileTypes :
              map = TypedFocusMap(w, h, p,
                        [kind |-> "Floor", elevation |-> 0, ramp_direction |-> None],
                        "Floor", [d \in 1..4 |-> 0], tt, nt)

\* the bytes an earlier image can hold
PriorBytes == {0, 255, 77}

\* image is None, or an image of the size the grid asks for or of another
\* size, of the splat format or of another, whose data is a byte repeated and
\* is as long as its size asks for, one texel shorter or one texel longer
ImageIsPrior ==
    \/ image = None
    \/ \E size \in {extent_from_map(map),
                     [width |-> 1, height |-> 1, depth_or_array_layers |-> 1],
                     [width |-> 2, height |-> 1, depth_or_array_layers |-> 1]} :
          \E format \in {"Rgba8Unorm", "Rgba8UnormSrgb"}, b \in PriorBytes, extra \in {-1, 0, 1} :
             LET whole == new_fill(size, <<b, b, b, b>>, format)
             IN  image = Some([whole EXCEPT !.data =
                                  resize(@, Len(@) + extra * CHANNELS, b)])

InitSplat ==
    /\ MapIsPainted
    /\ ImageIsPrior
    /\ corner_cache = None
    /\ mesh = None
    /\ per_type = None
    /\ again = None
    /\ app = None
    /\ pc = None

\* let image = splatmap::create(&map)
SplatCreate ==
    /\ pc = None
    /\ image = None
    /\ image' = Some(create(map))
    /\ pc' = Some([op |-> "create", before |-> None])
    /\ UNCHANGED <<map, corner_cache, mesh, per_type, again, app>>

\* splatmap::write(&map, &mut image)
SplatWrite ==
    /\ pc = None
    /\ image # None
    /\ image' = Some(write(map, image[1]))
    /\ pc' = Some([op |-> "write", before |-> image])
    /\ UNCHANGED <<map, corner_cache, mesh, per_type, again, app>>

NextSplat == SplatCreate \/ SplatWrite

SpecSplat == InitSplat /\ [][NextSplat]_vars

----------------------------------------------------------------------------
(* The editor: the Update systems of EditorPlugin and UiPlugin that read or  *)
(* write the grid.  Bevy runs each of them once per frame, in an order it     *)
(* chooses; a step is one run of one system.  app holds the EditorState       *)
(* without its map, the assets behind TerrainVisual, whether a system has     *)
(* panicked, and the number of changes made to the grid so far.               *)

EditorSizes ==
    {d \in (0..MaxW) \X (0..MaxH) : d[1] * d[2] <= MaxEditorTiles /\ (d[1] * d[2] > 0 \/ d = <<0, 0>>)}

\* the maps load_map can return: an empty grid, an untouched tile, or a grid
\* whose first tile is Dirt and raised
LoadedMaps ==
    {TileMapNew(0, 0), TileMapNew(1, 1)}
        \cup {set(TileMapNew(d[1], d[2]), 0, 0, Tile("Floor", "Dirt", 0, 0, 1, None)) :
                d \in {e \in EditorSizes : e[1] * e[2] > 0}}

\* after Startup: EditorState::default() and spawn_editor_assets
InitEditor ==
    /\ \E d \in EditorSizes : d[1] * d[2] > 0 /\ map = TileMapNew(d[1], d[2])
    /\ app = [current_tool |-> EditorStateDefault.current_tool,
              current_kind |-> EditorStateDefault.current_kind,
              current_elev |-> EditorStateDefault.current_elev,
              hover |-> EditorStateDefault.hover,
              map_dirty |-> EditorStateDefault.map_dirty,
              terrain_mesh |-> build_terrain_mesh(map),
              terrain_splatmap |-> build_splatmap(map),
              panicked |-> FALSE,
              edits |-> 0]
    /\ corner_cache = None
    /\ mesh = None
    /\ per_type = None
    /\ again = None
    /\ image = None
    /\ pc = None

\* the system leaves the state and map of r, having changed the grid or not
Leaves(r) ==
    LET left == r
        changed == left.map # map
    IN  /\ changed => app.edits < MaxEdits
        /\ app' = [left.state EXCEPT !.edits = IF changed THEN @ + 1 ELSE @]
        /\ map' = left.map
        /\ UNCHANGED <<corner_cache, mesh, per_type, again, image, pc>>

\* update_hover: None, or the tile of the grid under the cursor
UpdateHover ==
    /\ ~ app.panicked
    /\ \E h \in {None} \cup {Some(p) : p \in (0..(map.width - 1)) \X (0..(map.height - 1))} :
          Leaves([state |-> [app EXCEPT !.hover = h], map |-> map])

\* ui_panel with one click: a mode, a kind (shown in Paint mode), an elevation,
\* or a file picked after Load
UiPanel ==
    /\ ~ app.panicked
    /\ \/ \E t \in {"Paint", "RotateRamp"} :
             Leaves([state |-> [app EXCEPT !.current_tool = t], map |-> map])
       \/ /\ app.current_tool = "Paint"
          /\ \E k \in TileKinds :
                Leaves([state |-> [app EXCEPT !.current_kind = k], map |-> map])
       \/ \E e \in 0..MaxElev :
             Leaves([state |-> [app EXCEPT !.current_elev = e], map |-> map])
       \/ /\ app.edits < MaxEdits
          /\ \E m \in LoadedMaps :
                /\ app' = [app EXCEPT !.map_dirty = TRUE, !.edits = @ + 1]
                /\ map' = m
                /\ UNCHANGED <<corner_cache, mesh, per_type, again, image, pc>>

\* a system indexes the tile under hover: a panic when hover is past the end
\* of the tiles
Panics ==
    /\ app.hover # None
    /\ ~ indexable(map, app.hover[1][1], app.hover[1][2])
    /\ app' = [app EXCEPT !.panicked = TRUE]
    /\ UNCHANGED <<map, corner_cache, mesh, per_type, again, image, pc>>

PaintTiles ==
    /\ ~ app.panicked
    /\ app.current_tool = "Paint"
    /\ \/ Panics
       \/ /\ app.hover # None => indexable(map, app.hover[1][1], app.hover[1][2])
          /\ Leaves(paint_tiles(app, map))

RotateRamps ==
    /\ ~ app.panicked
    /\ app.current_tool = "RotateRamp"
    /\ \/ Panics
       \/ /\ app.hover # None => indexable(map, app.hover[1][1], app.hover[1][2])
          /\ Leaves(rotate_ramps(app, map))


rebuild_terrain_mesh(st, m) ==
    IF ~ st.map_dirty THEN st
    ELSE [st EXCEPT !.map_dirty = FALSE,
                    !.terrain_mesh = build_terrain_mesh(m),
                    !.terrain_splatmap = build_splatmap(m)]

RebuildTerrainMesh ==
    /\ ~ app.panicked
    /\ Leaves([state |-> rebuild_terrain_mesh(app, map), map |-> map])

NextEditor == UpdateHover \/ UiPanel \/ PaintTiles \/ RotateRamps \/ RebuildTerrainMesh

SpecEditor == InitEditor /\ [][NextEditor]_vars

----------------------------------------------------------------------------
(* The editor with RuntimePlugin: frames of the Update schedule.  In a frame *)
(* each system runs once.  generate_splat_map runs before                     *)
(* rebuild_runtime_mesh (.chain()); nothing else orders the systems, so any   *)
(* other order is one the executor may pick.  The pointer rests where it was  *)
(* put and the brush is the one chosen before the first frame; ui_panel       *)
(* loads a map or is left alone.  mesh and image are the runtime mesh and     *)
(* splat image assets.  pc holds the systems that ran in the frame under way  *)
(* and what is owed since map_dirty last went from false to true: the         *)
(* recompute of the runtime mesh, of the runtime splat image, or both.        *)

Systems ==
    {"ui_panel", "paint_tiles", "rotate_ramps", "rebuild_terrain_mesh",
     "generate_splat_map", "rebuild_runtime_mesh"}

\* the map a file picked in this run holds: one raised Dirt tile, which the
\* pointer is on
RuntimeLoadedMaps ==
    {set(TileMapNew(1, 1), 0, 0, Tile("Floor", "Dirt", 0, 0, 1, None))}

\* after Startup: EditorState::default() with a brush chosen, the pointer on
\* the first tile, spawn_editor_assets and setup_runtime_mesh
InitRuntime ==
    /\ map = TileMapNew(Min(MaxW, MaxEditorTiles), 1)
    /\ \E t \in {"Paint", "RotateRamp"}, k \in TileKinds, e \in 0..MaxElev :
          app = [current_tool |-> t,
                 current_kind |-> k,
                 current_elev |-> e,
                 hover |-> Some(<<0, 0>>),
                 map_dirty |-> EditorStateDefault.map_dirty,
                 terrain_mesh |-> build_terrain_mesh(map),
                 terrain_splatmap |-> build_splatmap(map),
                 runtime_size |-> setup_runtime_mesh(map).size,
                 edits |-> 0]
    /\ mesh = Some(setup_runtime_mesh(map).mesh)
    /\ image = Some(setup_runtime_mesh(map).image)
    /\ pc = Some([ran |-> {}, owed |-> {}])
    /\ corner_cache = None
    /\ per_type = None
    /\ again = None

\* system has not run in this frame; the frame ends with its last system
Runs(system, owed) ==
    /\ system \notin pc[1].ran
    /\ pc' = Some([ran |-> IF pc[1].ran \cup {system} = Systems THEN {}
                           ELSE pc[1].ran \cup {system},
                   owed |-> owed])

\* what is owed after a system that left the flag at dirty
OwedAfter(dirty) ==
    IF ~ app.map_dirty /\ dirty THEN {"mesh", "splat"} ELSE pc[1].owed

\* a system of the editor leaves the state and map of r
EditorLeaves(system, r) ==
    LET left == r
        changed == left.map # map
    IN  /\ changed => app.edits < MaxEdits
        /\ Runs(system, OwedAfter(left.state.map_dirty))
        /\ app' = [left.state EXCEPT !.edits = IF changed THEN @ + 1 ELSE @]
        /\ map' = left.map
        /\ UNCHANGED <<corner_cache, mesh, per_type, again, image>>

\* ui_panel: no click, or a file picked after Load
FrameUiPanel ==
    /\ "ui_panel" \notin pc[1].ran
    /\ \/ EditorLeaves("ui_panel", [state |-> app, map |-> map])
       \/ \E m \in RuntimeLoadedMaps :
             EditorLeaves("ui_panel", [state |-> [app EXCEPT !.map_dirty = TRUE], map |-> m])

\* paint_tiles: the left button is up, or down on the tile under the pointer
FramePaintTiles ==
    /\ "paint_tiles" \notin pc[1].ran
    /\ \/ EditorLeaves("paint_tiles", [state |-> app, map |-> map])
       \/ /\ app.current_tool = "Paint"
          /\ EditorLeaves("paint_tiles", paint_tiles(app, map))

\* rotate_ramps: the left button was not pressed, or was on the tile under the
\* pointer
FrameRotateRamps ==
    /\ "rotate_ramps" \notin pc[1].ran
    /\ \/ EditorLeaves("rotate_ramps", [state |-> app, map |-> map])
       \/ /\ app.current_tool = "RotateRamp"
          /\ EditorLeaves("rotate_ramps", rotate_ramps(app, map))

FrameRebuildTerrainMesh ==
    /\ "rebuild_terrain_mesh" \notin pc[1].ran
    /\ EditorLeaves("rebuild_terrain_mesh",
                    [state |-> rebuild_terrain_mesh(app, map), map |-> map])

\* generate_splat_map, the first system of the chain
GenerateSplatMap ==
    /\ Runs("generate_splat_map",
            IF app.map_dirty THEN pc[1].owed \ {"splat"} ELSE pc[1].owed)
    /\ LET r == generate_splat_map(app, map, image[1], app.runtime_size)
       IN  /\ image' = Some(r.image)
           /\ app' = [app EXCEPT !.runtime_size = r.size]
    /\ UNCHANGED <<map, corner_cache, mesh, per_type, again>>

\* rebuild_runtime_mesh, after generate_splat_map in the chain
RebuildRuntimeMesh ==
    /\ "generate_splat_map" \in pc[1].ran
    /\ Runs("rebuild_runtime_mesh",
            IF app.map_dirty THEN pc[1].owed \ {"mesh"} ELSE pc[1].owed)
    /\ mesh' = Some(rebuild_runtime_mesh(app, map, mesh[1]))
    /\ UNCHANGED <<map, corner_cache, per_type, again, image, app>>

NextRuntime ==
    \/ FrameUiPanel
    \/ FramePaintTiles
    \/ FrameRotateRamps
    \/ FrameRebuildTerrainMesh
    \/ GenerateSplatMap
    \/ RebuildRuntimeMesh

SpecRuntime == InitRuntime /\ [][NextRuntime]_vars

----------------------------------------------------------------------------
(* Two builds of one grid: build_combined_mesh and build_map_meshes, then    *)
(* both once more.  mesh and per_type hold the first builds, again the       *)
(* second ones.  A HashMap yields its entries in an order that differs from  *)
(* one HashMap to the next.                                                   *)

InitBuilds ==
    /\ \/ MapIsTyped(MaxBuildTiles)
       \/ \E w \in 0..MaxW, h \in 0..MaxH : w * h = 0 /\ map = TileMapNew(w, h)
    /\ Unbuilt

\* build_map_meshes(&map)
BuildMapMeshes ==
    /\ mesh # None
    /\ per_type = None
    /\ \E order \in IterationOrders(DOMAIN populate_mesh_buffers_per_type(map, HashMapNew)) :
          per_type' = Some(build_map_meshes(map, order))
    /\ UNCHANGED <<map, corner_cache, mesh, again, image, app, pc>>

\* build_combined_mesh(&map) and build_map_meshes(&map) a second time
BuildAgain ==
    /\ mesh # None
    /\ per_type # None
    /\ again = None
    /\ \E order \in IterationOrders(DOMAIN populate_mesh_buffers_per_type(map, HashMapNew)) :
          again' = Some([combined |-> build_combined_mesh(map),
                         per_type |-> build_map_meshes(map, order)])
    /\ UNCHANGED <<map, corner_cache, mesh, per_type, image, app, pc>>

NextBuilds == BuildCombinedMesh \/ BuildMapMeshes \/ BuildAgain

SpecBuilds == InitBuilds /\ [][NextBuilds]_vars

----------------------------------------------------------------------------
(* update_hover on its own: one run of the system on a grid whose first     *)
(* tile stands at any elevation, for a pointer over the UI or not, a cursor  *)
(* in the window or not, and a ray from the camera.  The camera keeps its    *)
(* pitch, so every ray points downwards; its origin is above or below the    *)
(* ground.  pc holds the inputs of the run and the return it left by.        *)

\* origins of the ray, in units of 1e-4
RayXs == {-8000, 3000, 14000, 21000}

RayYs == {-6000, 3000, 12000}

RayZs == {-8000, 3000, 9000}

Rays ==
    [origin : [x : RayXs, y : RayYs, z : RayZs],
     direction : [x : {-1, 0, 1}, y : {-1}, z : {-1, 0, 1}]]

InitHover ==
    /\ \E d \in EditorSizes, e \in Elevations, h \in {None, Some(<<0, 0>>)} :
          /\ map = IF d[1] * d[2] = 0 THEN TileMapNew(d[1], d[2])
                   ELSE set(TileMapNew(d[1], d[2]), 0, 0, Tile("Floor", "Grass", 0, 0, e, None))
          /\ app = [current_tool |-> EditorStateDefault.current_tool,
                    current_kind |-> EditorStateDefault.current_kind,
                    current_elev |-> EditorStateDefault.current_elev,
                    hover |-> h,
                    map_dirty |-> EditorStateDefault.map_dirty]
    /\ corner_cache = None
    /\ mesh = None
    /\ per_type = None
    /\ again = None
    /\ image = None
    /\ pc = None

RunUpdateHover ==
    /\ pc = None
    /\ \E wants \in BOOLEAN, cursor \in {None, Some(<<1, 1>>)}, ray \in {None} \cup {Some(r) : r \in Rays} :
          LET r == update_hover(app, map, wants, cursor, ray)
          IN  /\ app' = r.state
              /\ pc' = Some([op |-> "update_hover", wants_pointer_input |-> wants,
                             cursor_position |-> cursor, ray |-> ray, via |-> r.via])
    /\ UNCHANGED <<map, corner_cache, mesh, per_type, again, image>>

NextHover == RunUpdateHover

SpecHover == InitHover /\ [][NextHover]_vars

----------------------------------------------------------------------------
(* The calls of splatmap::write and splatmap::create, frame by frame.  pc   *)
(* holds the call stack, the number of calls of create made, the deepest the *)
(* stack has been and the steps taken since the call; a frame is the         *)
(* function, where it stands and the image it works on.  image is the        *)
(* caller's image.                                                            *)

InitCalls ==
    /\ \E w \in 0..MaxW, h \in 0..MaxH :
          \/ map = TileMapNew(w, h)
          \/ /\ w * h > 0
             /\ map = set(TileMapNew(w, h), 0, 0, Tile("Floor", "Dirt", 0, 0, 0, None))
    /\ ImageIsPrior
    /\ image # None
    /\ corner_cache = None
    /\ mesh = None
    /\ per_type = None
    /\ again = None
    /\ app = None
    /\ pc = None

Frame(fn, at, img) == [fn |-> fn, at |-> at, image |-> img]

\* the stack with its top frame replaced
WithTop(stack, frame) == [stack EXCEPT ![Len(stack)] = frame]

\* splatmap::write(&map, &mut image), called from outside
CallWrite ==
    /\ pc = None
    /\ pc' = Some([stack |-> <<Frame("write", "enter", image)>>,
                   creates |-> 0, deepest |-> 1, steps |-> 0, returned |-> FALSE])
    /\ UNCHANGED <<map, corner_cache, mesh, per_type, again, image, app>>

\* write from its entry: it calls create when the image is not reusable, and
\* fills the image in place otherwise
WriteBody ==
    /\ pc # None
    /\ pc[1].stack # << >>
    /\ LET top == pc[1].stack[Len(pc[1].stack)]
       IN  /\ top.fn = "write"
           /\ top.at = "enter"
           /\ IF ~ reusable(map, top.image[1])
              THEN /\ Len(pc[1].stack) < MaxDepth
                   /\ pc' = Some([pc[1] EXCEPT
                          !.stack = Append(WithTop(@, Frame("write", "in create", top.image)),
                                           Frame("create", "enter", None)),
                          !.creates = @ + 1,
                          !.steps = @ + 1,
                          !.deepest = Max(@, Len(pc[1].stack) + 1)])
              ELSE pc' = Some([pc[1] EXCEPT
                          !.steps = @ + 1,
                          !.stack = WithTop(@, Frame("write", "return",
                                                     Some(write_in_place(map, top.image[1]))))])
    /\ UNCHANGED <<map, corner_cache, mesh, per_type, again, image, app>>

\* create from its entry: it allocates the image and calls write on it
CreateBody ==
    /\ pc # None
    /\ pc[1].stack # << >>
    /\ LET top == pc[1].stack[Len(pc[1].stack)]
       IN  /\ top.fn = "create"
           /\ top.at = "enter"
           /\ Len(pc[1].stack) < MaxDepth
           /\ pc' = Some([pc[1] EXCEPT
                  !.stack = Append(WithTop(@, Frame("create", "in write", Some(fresh_image(map)))),
                                   Frame("write", "enter", Some(fresh_image(map)))),
                  !.steps = @ + 1,
                  !.deepest = Max(@, Len(pc[1].stack) + 1)])
    /\ UNCHANGED <<map, corner_cache, mesh, per_type, again, image, app>>

\* the top frame returns: its image becomes that of the frame that called it,
\* which returns next, or the caller's
Return ==
    /\ pc # None
    /\ pc[1].stack # << >>
    /\ LET n == Len(pc[1].stack)
           top == pc[1].stack[n]
       IN  /\ top.at = "return"
           /\ IF n = 1
              THEN /\ image' = top.image
                   /\ pc' = Some([pc[1] EXCEPT !.stack = << >>, !.steps = @ + 1,
                                              !.returned = TRUE])
              ELSE /\ image' = image
                   /\ pc' = Some([pc[1] EXCEPT
                          !.steps = @ + 1,
                          !.stack = WithTop(SubSeq(@, 1, n - 1),
                                            Frame(pc[1].stack[n - 1].fn, "return", top.image))])
    /\ UNCHANGED <<map, corner_cache, mesh, per_type, again, app>>

NextCalls == CallWrite \/ WriteBody \/ CreateBody \/ Return

SpecCalls == InitCalls /\ [][NextCalls]_vars

----------------------------------------------------------------------------
(* paint_tiles and rotate_ramps on their own: one run of either on a grid   *)
(* in which the hovered tile holds any kind, elevation and ramp_direction    *)
(* and its neighbours any elevations, or on the grid TileMap::new returns,   *)
(* with the left button down and the pointer off the toolbar.  hover is      *)
(* None or a tile of the grid; current_texture is the type selected in the   *)
(* toolbar.  pc holds the system that ran and the state and grid it found.   *)

\* what the toolbar holds: the Paint tool with a kind, an elevation and a
\* texture, or the RotateRamp tool
EditChoices ==
    [current_tool : {"Paint"}, current_kind : TileKinds, current_elev : 0..MaxElev,
     current_texture : {"Grass", "Dirt"}]
        \cup [current_tool : {"RotateRamp"},
              current_kind : {EditorStateDefault.current_kind},
              current_elev : {EditorStateDefault.current_elev},
              current_texture : {"Grass"}]

InitEdits ==
    /\ \E w \in 1..MaxW, h \in 1..MaxH :
          /\ w * h <= MaxRampTiles
          /\ \E p \in (0..(w - 1)) \X (0..(h - 1)), hover \in BOOLEAN :
                /\ \/ map = TileMapNew(w, h)
                   \/ /\ hover
                      /\ \E t \in TileChoices, ne \in [1..4 -> Elevations] :
                            /\ \A d \in 1..4 :
                                  (\/ NextTo(p[1], p[2], d)[1] \notin 0..(w - 1)
                                   \/ NextTo(p[1], p[2], d)[2] \notin 0..(h - 1)) => ne[d] = 0
                            /\ map = FocusMap(w, h, p, t, "Floor", ne)
                /\ \E ed \in EditChoices, dirty \in BOOLEAN :
                      app = [current_tool |-> ed.current_tool,
                             current_kind |-> ed.current_kind,
                             current_elev |-> ed.current_elev,
                             current_texture |-> ed.current_texture,
                             hover |-> IF hover THEN Some(p) ELSE None,
                             map_dirty |-> dirty]
    /\ corner_cache = None
    /\ mesh = None
    /\ per_type = None
    /\ again = None
    /\ image = None
    /\ pc = None

RunPaintTiles ==
    /\ pc = None
    /\ app.current_tool = "Paint"
    /\ LET r == paint_tiles(app, map)
       IN  /\ app' = r.state
           /\ map' = r.map
    /\ pc' = Some([op |-> "paint_tiles", state |-> app, map |-> map])
    /\ UNCHANGED <<corner_cache, mesh, per_type, again, image>>

RunRotateRamps ==
    /\ pc = None
    /\ app.current_tool = "RotateRamp"
    /\ LET r == rotate_ramps(app, map)
       IN  /\ app' = r.state
           /\ map' = r.map
    /\ pc' = Some([op |-> "rotate_ramps", state |-> app, map |-> map])
    /\ UNCHANGED <<corner_cache, mesh, per_type, again, image>>

NextEdits == RunPaintTiles \/ RunRotateRamps

SpecEdits == InitEdits /\ [][NextEdits]_vars

----------------------------------------------------------------------------
(* The texture registry on its own: register_loaded and                      *)
(* ensure_texture_arrays called in any order on a registry that starts       *)
(* empty.  app is the registry; pc holds the last call, and for              *)
(* register_loaded the entry it was given and the registry it found.         *)

\* the entries handed to register_loaded: each tile type with one of 3 sets of
\* images
EntryChoices ==
    {[tile_type |-> t, preview |-> "first.png", normal |-> None, roughness |-> None] : t \in TileTypes}
        \cup {[tile_type |-> t, preview |-> "second.png", normal |-> Some("second_n.png"),
               roughness |-> None] : t \in TileTypes}
        \cup {[tile_type |-> t, preview |-> "third.png", normal |-> None,
               roughness |-> Some("third_r.png")] : t \in TileTypes}

InitRegistry ==
    /\ app = TerrainTextureRegistryDefault
    /\ pc = None
    /\ map = TileMapNew(0, 0)
    /\ corner_cache = None
    /\ mesh = None
    /\ per_type = None
    /\ again = None
    /\ image = None

RegisterLoaded ==
    /\ \E entry \in EntryChoices :
          /\ app' = register_loaded(app, entry)
          /\ pc' = Some([op |-> "register_loaded", entry |-> entry, registry |-> app])
    /\ UNCHANGED <<map, corner_cache, mesh, per_type, again, image>>

EnsureTextureArrays ==
    /\ \E loaded \in BOOLEAN :
          LET r == ensure_texture_arrays(app, loaded)
          IN  /\ app' = r.registry
              /\ pc' = Some([op |-> "ensure_texture_arrays", returned |-> r.returned])
    /\ UNCHANGED <<map, corner_cache, mesh, per_type, again, image>>

NextRegistry == RegisterLoaded \/ EnsureTextureArrays

SpecRegistry == InitRegistry /\ [][NextRegistry]_vars

----------------------------------------------------------------------------
(* update_runtime_material on its own, run again and again while the asset  *)
(* server finishes loads.  app is the state the system is handed; pc holds   *)
(* the return the last run left by and whether the wall arrays could be      *)
(* assembled in it.                                                          *)

Handles ==
    {"first.png", "second.png", "second_n.png", "third.png", "third_r.png",
     "wall.png", "wall_n.png"}

\* the WallTextureEntry of the wall texture
WallEntry == [base_color |-> "wall.png", normal |-> Some("wall_n.png"), roughness |-> None]

\* the registry after register_loaded of each entry of a sequence in turn
RECURSIVE registry_after(_, _)
registry_after(entries, k) ==
    IF k = 0 THEN TerrainTextureRegistryDefault
    ELSE register_loaded(registry_after(entries, k - 1), entries[k])

\* registries: empty, 3 of the 4 tile types, and all 4, with and without the
\* wall texture
RegistryChoices ==
    LET all == <<[tile_type |-> "Grass", preview |-> "first.png", normal |-> None, roughness |-> None],
                 [tile_type |-> "Dirt", preview |-> "second.png", normal |-> Some("second_n.png"),
                  roughness |-> None],
                 [tile_type |-> "Cliff", preview |-> "third.png", normal |-> None,
                  roughness |-> Some("third_r.png")],
                 [tile_type |-> "Water", preview |-> "first.png", normal |-> None, roughness |-> None]>>
        plain == {registry_after(all, k) : k \in {0, 3, 4}}
    IN  plain \cup {register_wall_texture(reg, WallEntry) : reg \in plain}

\* load states with at most one image not loaded
LoadStates ==
    {[h \in Handles |-> "Loaded"]}
        \cup {[h \in Handles |-> IF h = g THEN s ELSE "Loaded"] :
                 g \in Handles, s \in {"Loading", "Failed"}}

InitMaterial ==
    /\ \E reg \in RegistryChoices, loads \in LoadStates, ready \in BOOLEAN,
          has_material \in BOOLEAN, has_splat \in BOOLEAN, has_runtime \in BOOLEAN,
          has_visibility \in BOOLEAN :
          app = [textures |-> reg,
                 asset_server |-> loads,
                 images_ready |-> ready,
                 material |-> IF has_material THEN Some(RuntimeMaterialDefault) ELSE None,
                 splat |-> IF has_splat THEN Some([handle |-> "splat", size |-> <<1, 1>>]) ELSE None,
                 runtime |-> has_runtime,
                 visibility |-> IF has_visibility THEN Some("Visible") ELSE None]
    /\ pc = None
    /\ map = TileMapNew(0, 0)
    /\ corner_cache = None
    /\ mesh = None
    /\ per_type = None
    /\ again = None
    /\ image = None

UpdateRuntimeMaterial ==
    /\ \E wall_assembled \in BOOLEAN :
          LET r == update_runtime_material(app, wall_assembled)
          IN  /\ app' = r.state
              /\ pc' = Some([op |-> "update_runtime_material", via |-> r.via,
                             wall_assembled |-> wall_assembled])
    /\ UNCHANGED <<map, corner_cache, mesh, per_type, again, image>>

\* the asset server finishes a load, well or badly
AssetServerProgress ==
    /\ \E h \in Handles, s \in {"Loaded", "Failed"} :
          /\ app.asset_server[h] = "Loading"
          /\ app' = [app EXCEPT !.asset_server[h] = s]
    /\ pc' = None
    /\ UNCHANGED <<map, corner_cache, mesh, per_type, again, image>>

NextMaterial == UpdateRuntimeMaterial \/ AssetServerProgress

SpecMaterial == InitMaterial /\ [][NextMaterial]_vars

----------------------------------------------------------------------------
(* Vocabulary of the properties, stated from the grid's geometry and not    *)
(* from the resolver's or the builder's code.                                *)

Priority == <<"North", "East", "South", "West">>

Edges == {"North", "East", "South", "West"}

Opposite(E) ==
    CASE E = "North" -> "South"
      [] E = "South" -> "North"
      [] E = "East"  -> "West"
      [] E = "West"  -> "East"

\* the 2 corners on edge E of a tile, as indices NW = 0, NE = 1, SW = 2, SE = 3
EdgeCorners(E) ==
    CASE E = "North" -> {0, 1}
      [] E = "South" -> {2, 3}
      [] E = "West"  -> {0, 2}
      [] E = "East"  -> {1, 3}

\* the position of the tile across edge E of tile (x, y)
Across(x, y, E) ==
    CASE E = "North" -> <<x, y - 1>>
      [] E = "South" -> <<x, y + 1>>
      [] E = "West"  -> <<x - 1, y>>
      [] E = "East"  -> <<x + 1, y>>

InGrid(p) == p[1] >= 0 /\ p[1] < map.width /\ p[2] >= 0 /\ p[2] < map.height

TilePositions == {p \in (0..(map.width - 1)) \X (0..(map.height - 1)) : TRUE}

TileAt(p) == map.tiles[p[2] * map.width + p[1]]

BaseOf(p) == TileAt(p).elevation * TILE_HEIGHT

\* the resolved corner heights of tile p, once the resolver has run
Resolved(p) == corner_cache[1][p[2] * map.width + p[1]]

HasCorners == corner_cache # None

\* E leads to an in-grid neighbour strictly lower than tile p's base
LowerAcross(p, E) ==
    /\ InGrid(Across(p[1], p[2], E))
    /\ BaseOf(Across(p[1], p[2], E)) < BaseOf(p)

LowerEdges(p) == {E \in Edges : LowerAcross(p, E)}

\* tile p slants to edge E at height h: E's corners at h, the other two at base
SlantsTo(p, E, h) ==
    \A c \in 0..3 :
        Resolved(p)[c] = (IF c \in EdgeCorners(E) THEN h ELSE BaseOf(p))

IsFlat(p) == \A c \in 0..3 : Resolved(p)[c] = BaseOf(p)

\* tile p's explicit ramp_direction is usable: set, and leading to a lower
\* in-grid neighbour
ExplicitUsable(p) ==
    /\ TileAt(p).ramp_direction # None
    /\ LowerAcross(p, TileAt(p).ramp_direction[1])

\* the lowest height among the strictly lower in-grid neighbours of p
LowestNeighbour(p) ==
    CHOOSE h \in {BaseOf(Across(p[1], p[2], E)) : E \in LowerEdges(p)} :
        \A E \in LowerEdges(p) : h <= BaseOf(Across(p[1], p[2], E))

\* the first edge, in priority order, whose neighbour is at the lowest height
FirstLowestEdge(p) ==
    LET k == CHOOSE i \in 1..4 :
                 /\ Priority[i] \in LowerEdges(p)
                 /\ BaseOf(Across(p[1], p[2], Priority[i])) = LowestNeighbour(p)
                 /\ \A j \in 1..(i - 1) :
                        ~ (/\ Priority[j] \in LowerEdges(p)
                           /\ BaseOf(Across(p[1], p[2], Priority[j])) = LowestNeighbour(p))
    IN  Priority[k]

----------------------------------------------------------------------------
(* Properties of the corner height resolver (checked under SpecCorners)     *)

\* C1: a Ramp tile whose ramp_direction is set to edge E, with an in-grid
\* neighbour across E strictly below the tile's base, has the 2 corners on E at
\* that neighbour's height and the 2 opposite corners at base, whatever the
\* other neighbours are.
C1_ExplicitRamp ==
    HasCorners =>
        \A p \in TilePositions : \A E \in Edges :
            (/\ TileAt(p).kind = "Ramp"
             /\ TileAt(p).ramp_direction = Some(E)
             /\ LowerAcross(p, E))
            => /\ \A c \in EdgeCorners(E) :
                      Resolved(p)[c] = BaseOf(Across(p[1], p[2], E))
               /\ \A c \in EdgeCorners(Opposite(E)) : Resolved(p)[c] = BaseOf(p)

\* C1 witness: a resolved Ramp tile with a usable explicit direction while a
\* neighbour on another edge is lower still
C1_Witness ==
    /\ HasCorners
    /\ \E p \in TilePositions : \E E \in Edges, F \in Edges :
          /\ TileAt(p).kind = "Ramp"
          /\ TileAt(p).ramp_direction = Some(E)
          /\ LowerAcross(p, E)
          /\ F # E
          /\ LowerAcross(p, F)
          /\ BaseOf(Across(p[1], p[2], F)) < BaseOf(Across(p[1], p[2], E))

\* C2: a Ramp tile with no usable explicit ramp_direction and at least one
\* strictly lower in-grid neighbour slants to the edge with the lowest
\* neighbour, and among several edges at that lowest height to the first in the
\* order North, East, South, West.
C2_AutoLowestFirst ==
    HasCorners =>
        \A p \in TilePositions :
            (/\ TileAt(p).kind = "Ramp"
             /\ ~ ExplicitUsable(p)
             /\ LowerEdges(p) # {})
            => SlantsTo(p, FirstLowestEdge(p), LowestNeighbour(p))

\* C2 witness: a resolved Ramp tile, without usable explicit direction, whose
\* lowest neighbour height is shared by two edges, North not among them, while
\* North is lower than base but not lowest
C2_Witness ==
    /\ HasCorners
    /\ \E p \in TilePositions : \E E \in Edges, F \in Edges :
          /\ TileAt(p).kind = "Ramp"
          /\ ~ ExplicitUsable(p)
          /\ E # F
          /\ {E, F} \subseteq LowerEdges(p)
          /\ BaseOf(Across(p[1], p[2], E)) = LowestNeighbour(p)
          /\ BaseOf(Across(p[1], p[2], F)) = LowestNeighbour(p)
          /\ FirstLowestEdge(p) # "North"
          /\ LowerAcross(p, "North")

\* C3: every Floor tile has all 4 resolved corners at elevation * TILE_HEIGHT,
\* whatever its neighbours and whatever ramp_direction it carries.
C3_FloorFlat ==
    HasCorners =>
        \A p \in TilePositions :
            TileAt(p).kind = "Floor" =>
                \A c \in 0..3 : Resolved(p)[c] = TileAt(p).elevation * TILE_HEIGHT

\* C3 witness: a resolved Floor tile that carries a ramp_direction towards a
\* strictly lower in-grid neighbour
C3_Witness ==
    /\ HasCorners
    /\ \E p \in TilePositions :
          /\ TileAt(p).kind = "Floor"
          /\ ExplicitUsable(p)

\* C4: a Ramp tile whose explicit ramp_direction points at a neighbour that is
\* not strictly lower, or at no neighbour, is resolved by the scan of the other
\* edges: it slants to the first lowest of them, and is flat at base when no
\* edge has a strictly lower neighbour.
C4_ExplicitFallsBack ==
    HasCorners =>
        \A p \in TilePositions :
            (/\ TileAt(p).kind = "Ramp"
             /\ TileAt(p).ramp_direction # None
             /\ ~ LowerAcross(p, TileAt(p).ramp_direction[1]))
            => LET others == LowerEdges(p) \ {TileAt(p).ramp_direction[1]}
               IN  IF others = {} THEN IsFlat(p)
                   ELSE /\ FirstLowestEdge(p) \in others
                        /\ SlantsTo(p, FirstLowestEdge(p), LowestNeighbour(p))

\* C4 witness: a resolved Ramp tile whose explicit ramp_direction names an
\* in-grid neighbour at the tile's own height, while two other edges have
\* strictly lower neighbours at different heights
C4_Witness ==
    /\ HasCorners
    /\ \E p \in TilePositions : \E E \in Edges, F \in Edges :
          /\ TileAt(p).kind = "Ramp"
          /\ TileAt(p).ramp_direction # None
          /\ InGrid(Across(p[1], p[2], TileAt(p).ramp_direction[1]))
          /\ BaseOf(Across(p[1], p[2], TileAt(p).ramp_direction[1])) = BaseOf(p)
          /\ {E, F} \subseteq LowerEdges(p)
          /\ BaseOf(Across(p[1], p[2], E)) < BaseOf(Across(p[1], p[2], F))

\* the other case of C4 is reached too: a resolved Ramp tile above the ground
\* whose explicit ramp_direction does not qualify and that has no strictly
\* lower neighbour
C4_FlatCaseReached ==
    /\ HasCorners
    /\ \E p \in TilePositions :
          /\ TileAt(p).kind = "Ramp"
          /\ TileAt(p).ramp_direction # None
          /\ LowerEdges(p) = {}
          /\ TileAt(p).elevation > 0

\* the height across edge E of tile p when an off-grid neighbour counts as a
\* neighbour of height 0
SentinelHeight(p, E) ==
    IF InGrid(Across(p[1], p[2], E)) THEN BaseOf(Across(p[1], p[2], E)) ELSE 0

\* C5 as stated: an off-grid neighbour counts as a neighbour of height 0 in
\* ramp target resolution, so a boundary Ramp tile with base above 0 slants to
\* the boundary edge at height 0 when its explicit ramp_direction names that
\* edge, and when the scan finds no in-grid neighbour below 0.
C5_OffGridIsZero ==
    HasCorners =>
        \A p \in TilePositions : \A E \in Edges :
            (/\ TileAt(p).kind = "Ramp"
             /\ ~ InGrid(Across(p[1], p[2], E))
             /\ BaseOf(p) > 0)
            => /\ TileAt(p).ramp_direction = Some(E) => SlantsTo(p, E, 0)
               /\ (/\ TileAt(p).ramp_direction = None
                   /\ \A F \in Edges : SentinelHeight(p, F) >= 0
                   /\ \A i \in 1..4 :
                         (Priority[i] = E) =>
                            \A j \in 1..(i - 1) : SentinelHeight(p, Priority[j]) > 0)
                  => SlantsTo(p, E, 0)

\* C5 amended: an off-grid neighbour is no neighbour in ramp target
\* resolution.  A boundary Ramp tile with base above 0 never slants to a
\* boundary edge; with its explicit ramp_direction on a boundary edge it is
\* resolved by the scan of the in-grid edges, and it is flat when no in-grid
\* neighbour is strictly lower.
C5_OffGridIsNoNeighbour ==
    HasCorners =>
        \A p \in TilePositions : \A E \in Edges :
            (/\ TileAt(p).kind = "Ramp"
             /\ ~ InGrid(Across(p[1], p[2], E))
             /\ BaseOf(p) > 0)
            => /\ ~ SlantsTo(p, E, 0)
               /\ LowerEdges(p) = {} => IsFlat(p)
               /\ (TileAt(p).ramp_direction = Some(E) /\ LowerEdges(p) # {})
                  => SlantsTo(p, FirstLowestEdge(p), LowestNeighbour(p))

\* C5 witness: a resolved boundary Ramp tile above 0 whose explicit
\* ramp_direction names a boundary edge and that has no lower in-grid neighbour
C5_Witness ==
    /\ HasCorners
    /\ \E p \in TilePositions : \E E \in Edges :
          /\ TileAt(p).kind = "Ramp"
          /\ ~ InGrid(Across(p[1], p[2], E))
          /\ BaseOf(p) > 0
          /\ TileAt(p).ramp_direction = Some(E)
          /\ LowerEdges(p) = {}

\* C6: every tile's resolved corners are all 4 at base, or the 2 corners of
\* one edge hold one common value strictly below base while the 2 corners of
\* the opposite edge are at base.
C6_SingleAxis ==
    HasCorners =>
        \A p \in TilePositions :
            \/ IsFlat(p)
            \/ \E E \in Edges :
                  LET v == Resolved(p)[CHOOSE c \in EdgeCorners(E) : TRUE]
                  IN  /\ v < BaseOf(p)
                      /\ SlantsTo(p, E, v)
                      /\ \A c \in EdgeCorners(Opposite(E)) : Resolved(p)[c] = BaseOf(p)

\* C6 witness: a resolved grid with a slanted tile next to a flat one
C6_Witness ==
    /\ HasCorners
    /\ \E p \in TilePositions : ~ IsFlat(p)
    /\ \E p \in TilePositions : IsFlat(p)

----------------------------------------------------------------------------
(* Reading the built mesh back: quads are 6 consecutive positions, and the  *)
(* skirt of an edge is the quad standing in that edge's vertical plane.      *)

HasMesh == mesh # None

MeshPositions == mesh[1].position[1]

QuadCount == Len(MeshPositions) \div 6

\* the 4 corners of quad q in the order they were given: the triangles are
\* (v1, v2, v3) and (v1, v3, v4)
QuadVerts(q) ==
    <<MeshPositions[6 * q - 5], MeshPositions[6 * q - 4], MeshPositions[6 * q - 3],
      MeshPositions[6 * q]>>

\* the ground position (x, z) of corner c of tile p
CornerXZ(p, c) ==
    <<(p[1] + (IF c \in {1, 3} THEN 1 ELSE 0)) * TILE_SIZE,
      (p[2] + (IF c \in {2, 3} THEN 1 ELSE 0)) * TILE_SIZE>>

XZ(v) == <<v.x, v.z>>

\* the 2 corners of edge E in the order a skirt runs along it (the tile's
\* outline taken NW, NE, SE, SW)
EdgeFrom(E) ==
    CASE E = "North" -> 0
      [] E = "East"  -> 1
      [] E = "South" -> 3
      [] E = "West"  -> 2

EdgeTo(E) ==
    CASE E = "North" -> 1
      [] E = "East"  -> 3
      [] E = "South" -> 2
      [] E = "West"  -> 0

\* quad q is a skirt on edge E of tile p: its top rail runs along the edge and
\* its bottom rail back underneath it
IsSkirtOf(q, p, E) ==
    LET v == QuadVerts(q)
    IN  /\ XZ(v[1]) = CornerXZ(p, EdgeFrom(E))
        /\ XZ(v[2]) = CornerXZ(p, EdgeTo(E))
        /\ XZ(v[3]) = CornerXZ(p, EdgeTo(E))
        /\ XZ(v[4]) = CornerXZ(p, EdgeFrom(E))

SkirtsOf(p, E) == {q \in 1..QuadCount : IsSkirtOf(q, p, E)}

\* top and bottom height of skirt q at corner c of tile p on edge E
SkirtTop(q, E, c) == IF c = EdgeFrom(E) THEN QuadVerts(q)[1].y ELSE QuadVerts(q)[2].y

SkirtBottom(q, E, c) == IF c = EdgeFrom(E) THEN QuadVerts(q)[4].y ELSE QuadVerts(q)[3].y

\* the height of the surface across edge E of tile p at p's corner c: the
\* neighbour's resolved height at the corner it shares, 0 at a map boundary
HeightAcross(p, E, c) ==
    LET n == Across(p[1], p[2], E)
    IN  IF InGrid(n)
        THEN Resolved(n)[CHOOSE d \in 0..3 : CornerXZ(n, d) = CornerXZ(p, c)]
        ELSE 0

\* the gap a skirt on edge E of tile p has to close at corner c
GapAt(p, E, c) == Resolved(p)[c] - Min(Resolved(p)[c], HeightAcross(p, E, c))

NeedsSkirt(p, E) == \E c \in EdgeCorners(E) : GapAt(p, E, c) >= EPS

----------------------------------------------------------------------------
(* Properties of the mesh builder (checked under Spec)                      *)

\* C7: at each of the 2 corners of every skirt, the top is the tile's resolved
\* corner height and the bottom is the minimum of that height and the
\* neighbour's height at the same corner (0 at a map boundary); so bottom <=
\* top, and the skirt reaches above neither surface.
C7_SkirtBottomIsMin ==
    HasMesh =>
        \A p \in TilePositions : \A E \in Edges : \A q \in SkirtsOf(p, E) :
            \A c \in EdgeCorners(E) :
                /\ SkirtTop(q, E, c) = Resolved(p)[c]
                /\ SkirtBottom(q, E, c) = Min(Resolved(p)[c], HeightAcross(p, E, c))
                /\ SkirtBottom(q, E, c) <= SkirtTop(q, E, c)
                /\ SkirtBottom(q, E, c) <= HeightAcross(p, E, c)

\* C7 witness: an emitted skirt towards an in-grid neighbour that is lower at
\* one corner of the edge and higher at the other
C7_Witness ==
    /\ HasMesh
    /\ \E p \in TilePositions : \E E \in Edges :
          /\ InGrid(Across(p[1], p[2], E))
          /\ SkirtsOf(p, E) # {}
          /\ \E c \in EdgeCorners(E) : HeightAcross(p, E, c) < Resolved(p)[c]
          /\ \E c \in EdgeCorners(E) : HeightAcross(p, E, c) > Resolved(p)[c]

\* C8: for adjacent in-grid tiles p and n and each corner of their shared edge
\* where their resolved heights differ, a skirt emitted on that edge (by p or
\* by n) spans from the lower to the higher height at that corner.
C8_GapCovered ==
    HasMesh =>
        \A p \in TilePositions : \A E \in Edges :
            LET n == Across(p[1], p[2], E)
            IN  InGrid(n) =>
                  \A c \in EdgeCorners(E) :
                     LET d == CHOOSE e \in 0..3 : CornerXZ(n, e) = CornerXZ(p, c)
                         lo == Min(Resolved(p)[c], Resolved(n)[d])
                         hi == Max(Resolved(p)[c], Resolved(n)[d])
                     IN  lo < hi =>
                           \/ \E q \in SkirtsOf(p, E) :
                                 SkirtBottom(q, E, c) <= lo /\ SkirtTop(q, E, c) >= hi
                           \/ \E q \in SkirtsOf(n, Opposite(E)) :
                                 /\ SkirtBottom(q, Opposite(E), d) <= lo
                                 /\ SkirtTop(q, Opposite(E), d) >= hi

\* C8 witness: two adjacent tiles, one higher at one corner of the shared edge
\* and lower at the other, after the build
C8_Witness ==
    /\ HasMesh
    /\ \E p \in TilePositions : \E E \in Edges :
          /\ InGrid(Across(p[1], p[2], E))
          /\ \E c \in EdgeCorners(E) : HeightAcross(p, E, c) < Resolved(p)[c]
          /\ \E c \in EdgeCorners(E) : HeightAcross(p, E, c) > Resolved(p)[c]
          /\ SkirtsOf(p, E) # {}
          /\ SkirtsOf(Across(p[1], p[2], E), Opposite(E)) # {}

\* C9: a tile edge has a skirt quad exactly when top - bottom is at least the
\* epsilon at one or both of its corners, and then it has one; so an edge whose
\* two tiles agree at both corners has none, and the mesh holds 6 vertices and
\* 6 indices per tile and per edge that needs a skirt, nothing for the others.
C9_SkirtIffGap ==
    HasMesh =>
        /\ \A p \in TilePositions : \A E \in Edges :
              /\ (SkirtsOf(p, E) # {}) <=> NeedsSkirt(p, E)
              /\ Cardinality(SkirtsOf(p, E)) <= 1
        /\ LET n == 6 * (Cardinality(TilePositions)
                         + Cardinality({pe \in TilePositions \X Edges :
                                           NeedsSkirt(pe[1], pe[2])}))
           IN  /\ Len(MeshPositions) = n
               /\ IF n = 0 THEN mesh[1].indices = None
                  ELSE Len(mesh[1].indices[1]) = n

\* C9 witness: a built grid with two adjacent tiles of equal heights along
\* their shared edge, above the ground, so that other edges do get skirts
C9_Witness ==
    /\ HasMesh
    /\ \E p \in TilePositions : \E E \in Edges :
          /\ InGrid(Across(p[1], p[2], E))
          /\ \A c \in EdgeCorners(E) : HeightAcross(p, E, c) = Resolved(p)[c]
          /\ \A c \in EdgeCorners(E) : Resolved(p)[c] > 0
          /\ SkirtsOf(p, E) = {}
          /\ \E F \in Edges : SkirtsOf(p, F) # {}

\* C10: on a map-boundary edge, a tile whose 2 edge corners are above 0 has a
\* skirt there whose bottom is at height 0, and a tile whose 2 edge corners are
\* at or below 0 has no skirt there.
C10_BoundarySkirt ==
    HasMesh =>
        \A p \in TilePositions : \A E \in Edges :
            ~ InGrid(Across(p[1], p[2], E)) =>
               /\ (\A c \in EdgeCorners(E) : Resolved(p)[c] > 0)
                  => /\ SkirtsOf(p, E) # {}
                     /\ \A q \in SkirtsOf(p, E) : \A c \in EdgeCorners(E) :
                           SkirtBottom(q, E, c) = 0
               /\ (\A c \in EdgeCorners(E) : Resolved(p)[c] <= 0)
                  => SkirtsOf(p, E) = {}

\* C10 witness: a built grid with a border tile above 0 and a border tile
\* below 0
C10_Witness ==
    /\ HasMesh
    /\ \E p \in TilePositions : \E E \in Edges :
          /\ ~ InGrid(Across(p[1], p[2], E))
          /\ \A c \in EdgeCorners(E) : Resolved(p)[c] > 0
    /\ \E p \in TilePositions : \E E \in Edges :
          /\ ~ InGrid(Across(p[1], p[2], E))
          /\ \A c \in EdgeCorners(E) : Resolved(p)[c] < 0

\* quad q is a top face of tile p: its 6 vertices stand over the corners NW, SW,
\* SE and NW, SE, NE of p, in that order
IsTopOf(q, p) ==
    LET order == <<0, 2, 3, 0, 3, 1>>
    IN  \A k \in 1..6 : XZ(MeshPositions[6 * (q - 1) + k]) = CornerXZ(p, order[k])

TopsOf(p) == {q \in 1..QuadCount : IsTopOf(q, p)}

\* C11: for every tile of a non-empty grid the mesh holds exactly one top quad,
\* 2 triangles with vertices (NW, SW, SE) then (NW, SE, NE), each at the tile's
\* own resolved corner height, and that quad comes before every skirt of the
\* tile.
C11_TopQuad ==
    (HasMesh /\ map.width > 0 /\ map.height > 0) =>
        \A p \in TilePositions :
            /\ Cardinality(TopsOf(p)) = 1
            /\ \A q \in TopsOf(p) :
                  LET order == <<0, 2, 3, 0, 3, 1>>
                  IN  /\ \A k \in 1..6 :
                            MeshPositions[6 * (q - 1) + k].y = Resolved(p)[order[k]]
                      /\ \A E \in Edges : \A s \in SkirtsOf(p, E) : q < s

\* C11 witness: a built grid of several tiles in which a slanted tile, not the
\* first one, has its top quad and at least 2 skirts
C11_Witness ==
    /\ HasMesh
    /\ \E p \in TilePositions :
          /\ p # <<0, 0>>
          /\ ~ IsFlat(p)
          /\ TopsOf(p) # {}
          /\ Cardinality({E \in Edges : SkirtsOf(p, E) # {}}) >= 2

\* C13: the mesh built from a grid of width 0 or height 0 is an empty mesh: no
\* vertices, no indices, and none of the attributes position, normal, uv0 and
\* layer present.
C13_EmptyGridNoAttributes ==
    (HasMesh /\ (map.width = 0 \/ map.height = 0)) =>
        /\ mesh[1].position = None
        /\ mesh[1].normal = None
        /\ mesh[1].uv0 = None
        /\ mesh[1].uv1 = None
        /\ mesh[1].indices = None

\* what the builder does hold to on such a grid: no vertex, no index, no layer
\* attribute
C13_EmptyGridNoVertices ==
    (HasMesh /\ (map.width = 0 \/ map.height = 0)) =>
        /\ mesh[1].position = Some(<< >>)
        /\ mesh[1].normal = Some(<< >>)
        /\ mesh[1].uv0 = Some(<< >>)
        /\ mesh[1].uv1 = None
        /\ mesh[1].indices = None

----------------------------------------------------------------------------
(* Properties of the layer attributes (checked under SpecLayers)            *)

\* the layer attribute (ATTRIBUTE_UV_1) and the uv (ATTRIBUTE_UV_0) of vertex
\* k of quad q
LayerOf(q, k) == mesh[1].uv1[1][6 * (q - 1) + k]

UvOf(q, k) == mesh[1].uv0[1][6 * (q - 1) + k]

TypeIndexAt(p) == as_index(TileAt(p).tile_type)

\* C12 as stated: the layer attribute of every top-face vertex is the index of
\* its own tile's tile_type, and the layer attribute of every skirt vertex is
\* the tile_type index of the neighbour across that edge.
C12_SkirtLayerIsNeighbour ==
    HasMesh =>
        \A p \in TilePositions :
            /\ \A q \in TopsOf(p) : \A k \in 1..6 : LayerOf(q, k)[1] = TypeIndexAt(p)
            /\ \A E \in Edges :
                  InGrid(Across(p[1], p[2], E)) =>
                     \A q \in SkirtsOf(p, E) : \A k \in 1..6 :
                        LayerOf(q, k)[1] = TypeIndexAt(Across(p[1], p[2], E))

\* C12 amended: the layer attribute (UV_1) of every top-face vertex and of
\* every skirt vertex is the index of the emitting tile's own tile_type; the
\* tile_type index of the neighbour across the edge is the first component of
\* the skirt vertex's UV_0, which on a map-boundary edge is the tile's own
\* index.
C12_SkirtLayerIsOwn ==
    HasMesh =>
        \A p \in TilePositions :
            /\ \A q \in TopsOf(p) : \A k \in 1..6 : LayerOf(q, k)[1] = TypeIndexAt(p)
            /\ \A E \in Edges : \A q \in SkirtsOf(p, E) : \A k \in 1..6 :
                  /\ LayerOf(q, k)[1] = TypeIndexAt(p)
                  /\ UvOf(q, k)[1] = (IF InGrid(Across(p[1], p[2], E))
                                       THEN TypeIndexAt(Across(p[1], p[2], E))
                                       ELSE TypeIndexAt(p))

\* C12 witness: a built grid in which a tile has a skirt towards an in-grid
\* neighbour of another tile_type and a skirt on a map-boundary edge, neither
\* tile being Grass
C12_Witness ==
    /\ HasMesh
    /\ \E p \in TilePositions : \E E \in Edges, F \in Edges :
          /\ InGrid(Across(p[1], p[2], E))
          /\ SkirtsOf(p, E) # {}
          /\ TypeIndexAt(Across(p[1], p[2], E)) # TypeIndexAt(p)
          /\ TypeIndexAt(Across(p[1], p[2], E)) # 0
          /\ TypeIndexAt(p) # 0
          /\ ~ InGrid(Across(p[1], p[2], F))
          /\ SkirtsOf(p, F) # {}

----------------------------------------------------------------------------
(* Properties of the splat encoder (checked under SpecSplat)                *)

Encoded == pc # None /\ pc[1].op \in {"create", "write"}

\* channel c (0..3) of the texel in column x and row y of the image
Channel(x, y, c) ==
    image[1].data[(y * image[1].texture_descriptor.size.width + x) * CHANNELS + c + 1]

Texels ==
    (0..(image[1].texture_descriptor.size.width - 1))
        \X (0..(image[1].texture_descriptor.size.height - 1))

OneHot(t) == Cardinality({c \in 0..3 : Channel(t[1], t[2], c) # 0}) = 1

\* C14 as stated: after create or write on any grid, every texel of the image
\* has exactly one non-zero channel, and for the texel of tile (x, y) that
\* channel is the index of the tile's tile_type, at 255.
C14_OneHotAnyGrid ==
    Encoded =>
        /\ \A t \in Texels : OneHot(t)
        /\ \A p \in TilePositions :
              Channel(p[1], p[2], as_index(TileAt(p).tile_type)) = 255

\* C14 amended: after create or write on a grid of width and height at least
\* 1, the image has one texel per tile and each has exactly one non-zero
\* channel, the index of the tile's tile_type, at 255; on a grid of width 0 or
\* height 0 the image is max(width, 1) by max(height, 1) texels, all 4 channels
\* of each being 0.
C14_OneHotNonEmptyGrid ==
    Encoded =>
        /\ Len(image[1].data) = Cardinality(Texels) * CHANNELS
        /\ image[1].texture_descriptor.size.width = Max(map.width, 1)
        /\ image[1].texture_descriptor.size.height = Max(map.height, 1)
        /\ IF map.width = 0 \/ map.height = 0
           THEN \A t \in Texels : \A c \in 0..3 : Channel(t[1], t[2], c) = 0
           ELSE /\ Texels = TilePositions
                /\ \A t \in Texels :
                      /\ OneHot(t)
                      /\ Channel(t[1], t[2], as_index(TileAt(t).tile_type)) = 255

\* C14 witness: an image of a grid of several rows and columns and 3
\* tile_types, written over an image of the same size that held 255 in every
\* channel
C14_Witness ==
    /\ Encoded
    /\ pc[1].op = "write"
    /\ map.width > 1 /\ map.height > 1 /\ map.width # map.height
    /\ Cardinality({TileAt(p).tile_type : p \in TilePositions}) = 3
    /\ pc[1].before[1].texture_descriptor = [image[1].texture_descriptor EXCEPT
                                                !.usage = "default"]
    /\ \A k \in 1..Len(pc[1].before[1].data) : pc[1].before[1].data[k] = 255

\* size, format and pixel data of an image
Content(img) ==
    <<img.texture_descriptor.size, img.texture_descriptor.format, img.data>>

\* the call of write found the size and format the grid asks for
Reused ==
    /\ pc[1].before[1].texture_descriptor.size = extent_from_map(map)
    /\ pc[1].before[1].texture_descriptor.format = "Rgba8Unorm"

\* C15: write(map, image) leaves image with the size, format and pixel data of
\* a fresh create(map), whatever it held before; when its size and format
\* already matched the grid it is the same image otherwise (the buffer is
\* rewritten in place), and when they did not it is the fresh image.
C15_WriteIsCreate ==
    (Encoded /\ pc[1].op = "write") =>
        /\ Content(image[1]) = Content(create(map))
        /\ IF Reused
           THEN image[1] = [configure_image(pc[1].before[1]) EXCEPT
                               !.data = create(map).data]
           ELSE image[1] = create(map)

\* C15 witness: a write over an image of matching size and format whose data
\* was non-zero and one texel too long, and the grid has tiles
C15_Witness ==
    /\ Encoded
    /\ pc[1].op = "write"
    /\ Reused
    /\ map.width * map.height > 1
    /\ Len(pc[1].before[1].data) > Len(image[1].data)
    /\ \A k \in 1..Len(pc[1].before[1].data) : pc[1].before[1].data[k] = 77

----------------------------------------------------------------------------
(* Properties of the editor (checked under SpecEditor)                      *)

InEditor == app # None

----------------------------------------------------------------------------
(* Properties of the runtime terrain (checked under SpecRuntime)            *)

InRuntime == pc # None /\ app # None /\ "runtime_size" \in DOMAIN app

\* C17: every transition of map_dirty to true is followed by a recompute of
\* the runtime mesh and of the runtime splat image before the flag is cleared:
\* whenever the flag is clear, nothing is owed since it last went to true.
C17_RecomputedBeforeCleared ==
    (InRuntime /\ ~ app.map_dirty) => pc[1].owed = {}

----------------------------------------------------------------------------
(* Properties of repeated builds (checked under SpecBuilds)                 *)

BuiltTwice == mesh # None /\ per_type # None /\ again # None

\* the buffers of a mesh, one after another
Buffers(msh) == <<msh.position, msh.normal, msh.uv0, msh.uv1, msh.indices>>

----------------------------------------------------------------------------
(* The two end-to-end scenarios (checked under Spec)                        *)

\* the quads of the mesh that are the top of some tile
TopQuads == {q \in 1..QuadCount : \E p \in TilePositions : IsTopOf(q, p)}

\* scenario 1: a 1x1 grid holding one Floor/Grass tile at elevation 0
SingleTile ==
    /\ map.width = 1
    /\ map.height = 1
    /\ TileAt(<<0, 0>>).kind = "Floor"
    /\ TileAt(<<0, 0>>).tile_type = "Grass"
    /\ TileAt(<<0, 0>>).elevation = 0

\* C19: the mesh of a 1x1 grid holding one Floor/Grass tile at elevation 0 is
\* exactly 1 top quad, with 6 indices, and has no skirt on any of the 4
\* boundary edges.
C19_SingleTileOneQuad ==
    (HasMesh /\ SingleTile) =>
        /\ QuadCount = 1
        /\ TopQuads = {1}
        /\ mesh[1].indices # None
        /\ Len(mesh[1].indices[1]) = 6
        /\ \A E \in Edges : SkirtsOf(<<0, 0>>, E) = {}

\* C19 witness: the single tile was built
C19_Witness ==
    /\ HasMesh
    /\ SingleTile
    /\ Len(MeshPositions) > 0

\* scenario 2: a column of 2 Floor tiles, (0, 0) at elevation 0 and (0, 1) at
\* elevation 1
Column ==
    /\ map.width = 1
    /\ map.height = 2
    /\ TileAt(<<0, 0>>).kind = "Floor"
    /\ TileAt(<<0, 0>>).elevation = 0
    /\ TileAt(<<0, 1>>).kind = "Floor"
    /\ TileAt(<<0, 1>>).elevation = 1

\* skirt q on edge E stands on height 0 and reaches height TILE_HEIGHT at both
\* of its ends
SpansOneStep(q, E) ==
    \A c \in EdgeCorners(E) :
        /\ SkirtTop(q, E, c) = TILE_HEIGHT
        /\ SkirtBottom(q, E, c) = 0

\* C20: the mesh of the column has exactly 2 top quads, one per tile; tile
\* (0, 1) has one skirt on the edge it shares with (0, 0) and one on each of
\* its 3 outer edges, each from height TILE_HEIGHT down to 0; tile (0, 0) has
\* no skirt.
C20_ColumnStep ==
    (HasMesh /\ Column) =>
        /\ Cardinality(TopQuads) = 2
        /\ Cardinality(TopsOf(<<0, 0>>)) = 1
        /\ Cardinality(TopsOf(<<0, 1>>)) = 1
        /\ \A E \in Edges :
              /\ Cardinality(SkirtsOf(<<0, 1>>, E)) = 1
              /\ \A q \in SkirtsOf(<<0, 1>>, E) : SpansOneStep(q, E)
              /\ SkirtsOf(<<0, 0>>, E) = {}
        /\ QuadCount = 6

\* C20 witness: the column was built and a skirt stands on its shared edge
C20_Witness ==
    /\ HasMesh
    /\ Column
    /\ SkirtsOf(<<0, 1>>, "North") # {}

----------------------------------------------------------------------------
(* Properties of the grid under edits (checked under SpecEditor)            *)

\* C21: every tile stored in the grid has x and y fields equal to its column
\* and row, in the grid TileMap::new returns and after any edits.
C21_TileKnowsItsPlace ==
    InEditor =>
        \A p \in TilePositions : TileAt(p).x = p[1] /\ TileAt(p).y = p[2]

----------------------------------------------------------------------------
(* Properties of update_hover (checked under SpecHover)                     *)

Hovered == pc # None /\ pc[1].op = "update_hover"

\* the point where the line of ray r meets the plane y = h lies over tile p:
\* with s = (h - origin.y) / direction.y, p[1] * TILE_SIZE <= origin.x +
\* direction.x * s < (p[1] + 1) * TILE_SIZE, and likewise for z; stated
\* multiplied through by direction.y, which is negative
MeetsOver(r, h, p) ==
    LET o == r.origin
        d == r.direction
        px == o.x * d.y + d.x * (h - o.y)
        pz == o.z * d.y + d.z * (h - o.y)
    IN  /\ p[1] * TILE_SIZE * d.y >= px
        /\ px > (p[1] + 1) * TILE_SIZE * d.y
        /\ p[2] * TILE_SIZE * d.y >= pz
        /\ pz > (p[2] + 1) * TILE_SIZE * d.y

\* the run had a pointer free of the UI, a cursor and a ray
Aimed ==
    /\ ~ pc[1].wants_pointer_input
    /\ pc[1].cursor_position # None
    /\ pc[1].ray # None

----------------------------------------------------------------------------
(* Properties of the calls of write and create (checked under SpecCalls)    *)

Called == pc # None /\ "stack" \in DOMAIN pc[1]

\* the frame on top of the stack is about to run its body or to return, so the
\* call is not waiting on anything
TopRuns ==
    /\ pc[1].stack # << >>
    /\ pc[1].stack[Len(pc[1].stack)].at \in {"enter", "return"}

\* C23: splatmap::write returns for every grid and every image it is given:
\* until it has returned its top frame can always take a step, it takes at
\* most 6 steps (each of write, create and the write create called, entered
\* and left), create is called at most once and the stack never holds more
\* than those 3 frames.
C23_WriteReturns ==
    Called =>
        /\ pc[1].creates <= 1
        /\ Len(pc[1].stack) <= 3
        /\ pc[1].steps <= 6
        /\ pc[1].returned \/ TopRuns

\* C23 witness: write has returned after create was called and called write
\* back, for a grid without tiles and an image of another size
C23_Witness ==
    /\ Called
    /\ pc[1].returned
    /\ pc[1].creates = 1
    /\ pc[1].deepest = 3
    /\ map.width * map.height = 0
    /\ image = Some(create(map))

----------------------------------------------------------------------------
(* Properties of the hovered position (checked under SpecEditor)            *)

\* the position paint_tiles, rotate_ramps and draw_hover_highlight would index
\* the grid with when they run next
HoverUsed == InEditor /\ ~ app.panicked /\ app.hover # None

\* C24: whenever paint_tiles, rotate_ramps or draw_hover_highlight uses
\* hover = Some((x, y)) to index the grid, x < width and y < height of the
\* current map, in every order of update_hover, the map load and the edit
\* systems.
C24_HoverInsideMap ==
    HoverUsed => app.hover[1][1] < map.width /\ app.hover[1][2] < map.height

----------------------------------------------------------------------------
(* Properties of a single edit (checked under SpecEdits)                    *)

\* the system that has run, on a hovered tile
Ran(op) ==
    /\ pc # None
    /\ "op" \in DOMAIN pc[1]
    /\ pc[1].op = op
    /\ pc[1].state.hover # None

\* the hovered position, and the tile found there and the tile left there
HoveredAt == pc[1].state.hover[1]

Found == pc[1].map.tiles[HoveredAt[2] * pc[1].map.width + HoveredAt[1]]

Left == TileAt(HoveredAt)

\* the run has raised map_dirty exactly when it has changed the grid
DirtyIffChanged ==
    /\ map # pc[1].map => app.map_dirty
    /\ map = pc[1].map => app.map_dirty = pc[1].state.map_dirty

\* every tile but the hovered one is as it was, and so is the grid's size
OthersKept ==
    /\ map.width = pc[1].map.width
    /\ map.height = pc[1].map.height
    /\ \A p \in TilePositions : p # HoveredAt => TileAt(p) = pc[1].map.tiles[p[2] * map.width + p[1]]

\* C25: paint_tiles on hovered tile (x, y) sets map_dirty exactly when it
\* modifies the grid; a modification changes nothing but the kind, elevation
\* and ramp_direction of tile (x, y): its tile_type is left as it was, every
\* other tile is unchanged, and painting a Floor stores ramp_direction None.
C25_PaintChangesThreeFields ==
    Ran("paint_tiles") =>
        /\ DirtyIffChanged
        /\ OthersKept
        /\ Left = [Found EXCEPT !.kind = Left.kind, !.elevation = Left.elevation,
                                !.ramp_direction = Left.ramp_direction]
        /\ (map # pc[1].map /\ pc[1].state.current_kind = "Floor") => Left.ramp_direction = None


\* the edges of the hovered tile whose in-grid neighbour stood strictly lower
\* than it when the system ran
LowerFound ==
    {E \in Edges :
        LET q == Across(HoveredAt[1], HoveredAt[2], E)
        IN  /\ InGrid(q)
            /\ pc[1].map.tiles[q[2] * pc[1].map.width + q[1]].elevation < Found.elevation}

PriorityOf(E) == CHOOSE i \in 1..4 : Priority[i] = E

\* the first edge of Q in North, East, South, West order
FirstOf(Q) == Priority[CHOOSE i \in 1..4 : Priority[i] \in Q /\ \A j \in 1..(i - 1) : Priority[j] \notin Q]

\* the edge of Q that follows E in cyclic North, East, South, West order
NextOf(Q, E) ==
    LET later == {F \in Q : PriorityOf(F) > PriorityOf(E)}
    IN  IF later # {} THEN FirstOf(later) ELSE FirstOf(Q)

\* C26: rotate_ramps on a hovered Ramp tile moves ramp_direction to the next
\* direction, in cyclic North, East, South, West order, among the edges whose
\* in-grid neighbour is strictly lower (to the first such edge when the
\* current direction is unset or not among them), so the stored direction
\* names a strictly lower in-grid neighbour; it changes nothing and leaves
\* map_dirty alone when the tile is not a Ramp, when no edge qualifies, or
\* when the only qualifying edge is already selected.
C26_RotateCycles ==
    Ran("rotate_ramps") =>
        IF \/ Found.kind # "Ramp"
           \/ LowerFound = {}
           \/ \E E \in Edges : LowerFound = {E} /\ Found.ramp_direction = Some(E)
        THEN map = pc[1].map /\ app = pc[1].state
        ELSE /\ Left.ramp_direction =
                    Some(IF Found.ramp_direction = None \/ Found.ramp_direction[1] \notin LowerFound
                         THEN FirstOf(LowerFound)
                         ELSE NextOf(LowerFound, Found.ramp_direction[1]))
             /\ Left.ramp_direction[1] \in LowerFound
             /\ Left.ramp_direction # Found.ramp_direction
             /\ app.map_dirty

\* C26 witness: a Ramp with 3 lower neighbours pointed at the last of them,
\* and the click has moved it round to the first
C26_Witness ==
    /\ Ran("rotate_ramps")
    /\ Found.kind = "Ramp"
    /\ Cardinality(LowerFound) = 3
    /\ Found.ramp_direction # None
    /\ Found.ramp_direction[1] \in LowerFound
    /\ \A F \in LowerFound : PriorityOf(F) <= PriorityOf(Found.ramp_direction[1])
    /\ Left.ramp_direction = Some(FirstOf(LowerFound))
    /\ ~ pc[1].state.map_dirty /\ app.map_dirty

----------------------------------------------------------------------------
(* Properties of the buffers of the built meshes (checked under SpecBuilds) *)

\* the number of elements of an attribute or index buffer, 0 when absent
Count(buffer) == IF buffer = None THEN 0 ELSE Len(buffer[1])

\* positions, normals and uv0 of msh hold n elements each, and its indices
\* are 0, 1, ..., n - 1
Unshared(msh, n) ==
    /\ Count(msh.position) = n
    /\ Count(msh.normal) = n
    /\ Count(msh.uv0) = n
    /\ Count(msh.indices) = n
    /\ \A k \in 1..n : msh.indices[1][k] = k - 1

\* the quads of the combined mesh that are a skirt of some tile
EmittedSkirts == {q \in 1..QuadCount : \E p \in TilePositions, E \in Edges : IsSkirtOf(q, p, E)}

\* the tiles of type t, and their edges that need a skirt
TilesOf(t) == {p \in TilePositions : TileAt(p).tile_type = t}

SkirtedEdgesOf(t) == {pe \in TilesOf(t) \X Edges : NeedsSkirt(pe[1], pe[2])}

\* C27: in every built mesh, positions, normals and uv0 (and the layer
\* attribute of the combined mesh) have the same length n, which is 6 times
\* the number of tiles plus emitted skirts, and the index buffer is exactly
\* 0, 1, ..., n - 1.
C27_BuffersUnshared ==
    /\ HasMesh =>
          LET n == 6 * (Cardinality(TilePositions) + Cardinality(EmittedSkirts))
          IN  Unshared(mesh[1], n) /\ Count(mesh[1].uv1) = n
    /\ (HasMesh /\ per_type # None) =>
          \A t \in DOMAIN per_type[1] :
              Unshared(per_type[1][t],
                       6 * (Cardinality(TilesOf(t)) + Cardinality(SkirtedEdgesOf(t))))

\* C27 witness: the combined mesh and the meshes of 2 tile types are built,
\* with skirts among their quads
C27_Witness ==
    /\ HasMesh
    /\ per_type # None
    /\ EmittedSkirts # {}
    /\ Cardinality(DOMAIN per_type[1]) = 2
    /\ \E t \in DOMAIN per_type[1] : SkirtedEdgesOf(t) # {}
    /\ Count(mesh[1].indices) >= 18


\* the type of the tile whose top or skirt quad q of the combined mesh is
OwnerType(q) ==
    TileAt(CHOOSE p \in TilePositions :
               IsTopOf(q, p) \/ \E E \in Edges : IsSkirtOf(q, p, E)).tile_type

\* the positions of the combined mesh that belong to tiles of type t, in the
\* order they have there
PositionsOf(t) ==
    LET owners == [q \in 1..QuadCount |-> OwnerType(q)]
        at == SelectSeq([k \in 1..Len(MeshPositions) |-> k],
                        LAMBDA k : owners[((k - 1) \div 6) + 1] = t)
        all == MeshPositions
    IN  [j \in 1..Len(at) |-> all[at[j]]]

PerTypeCount(t) == IF t \in DOMAIN per_type[1] THEN Count(per_type[1][t].position) ELSE 0

\* C28: build_map_meshes partitions the geometry of build_combined_mesh by
\* tile type: the mesh keyed by a type holds the positions of the top quads
\* and skirts of the tiles of that type, in the order the combined mesh has
\* them (row-major by tile); a type with no tiles has no mesh; and the vertex
\* counts of the per-type meshes sum to that of the combined mesh.
C28_PerTypePartitions ==
    (HasMesh /\ per_type # None) =>
        /\ DOMAIN per_type[1] = {t \in TileTypes : TilesOf(t) # {}}
        /\ \A q \in 1..QuadCount :
              \E p \in TilePositions : IsTopOf(q, p) \/ \E E \in Edges : IsSkirtOf(q, p, E)
        /\ \A t \in DOMAIN per_type[1] :
              per_type[1][t].position = Some(PositionsOf(t))
        /\ PerTypeCount("Grass") + PerTypeCount("Dirt") + PerTypeCount("Cliff")
              + PerTypeCount("Water") = Len(MeshPositions)

\* C28 witness: a grid of 2 tile types whose tiles both have skirts, built
\* both ways; the other 2 types have no mesh
C28_Witness ==
    /\ HasMesh
    /\ per_type # None
    /\ Cardinality(DOMAIN per_type[1]) = 2
    /\ \A t \in DOMAIN per_type[1] : Len(PositionsOf(t)) >= 12
    /\ \E t \in TileTypes : t \notin DOMAIN per_type[1]

----------------------------------------------------------------------------
(* Properties of the texture registry (checked under SpecRegistry)          *)

Registered ==
    /\ pc # None
    /\ "op" \in DOMAIN pc[1]
    /\ pc[1].op = "register_loaded"

\* the positions of entries, counted from 0, that hold an entry of type t
PlacesOf(reg, t) == {i \in 0..(Len(reg.entries) - 1) : reg.entries[i + 1].tile_type = t}

\* C29: after any sequence of register_loaded calls the registry holds at
\* most one entry per tile type and lookup maps each registered tile type to
\* the index of the entry of that type; registering a type again replaces its
\* entry in place and changes no index; every registration clears the cached
\* base-colour, normal and roughness array handles.
C29_RegistryConsistent ==
    Registered =>
        LET found == pc[1].registry
            entry == pc[1].entry
        IN  /\ \A t \in TileTypes : Cardinality(PlacesOf(app, t)) <= 1
            /\ DOMAIN app.lookup = {t \in TileTypes : PlacesOf(app, t) # {}}
            /\ \A t \in DOMAIN app.lookup : PlacesOf(app, t) = {app.lookup[t]}
            /\ \A t \in DOMAIN found.lookup : app.lookup[t] = found.lookup[t]
            /\ \A i \in 1..Len(found.entries) :
                  app.entries[i] = (IF found.entries[i].tile_type = entry.tile_type
                                    THEN entry ELSE found.entries[i])
            /\ Len(app.entries) =
                  Len(found.entries) + (IF PlacesOf(found, entry.tile_type) = {} THEN 1 ELSE 0)
            /\ app.entries[app.lookup[entry.tile_type] + 1] = entry
            /\ app.base_color_array = None
            /\ app.normal_array = None
            /\ app.roughness_array = None

\* C29 witness: all 4 tile types were registered and the 3 arrays cached, and
\* a type that is not the last entry was registered again with other images
C29_Witness ==
    /\ Registered
    /\ pc[1].registry.base_color_array # None
    /\ pc[1].registry.normal_array # None
    /\ pc[1].registry.roughness_array # None
    /\ pc[1].entry.tile_type \in DOMAIN pc[1].registry.lookup
    /\ pc[1].registry.lookup[pc[1].entry.tile_type] < 3
    /\ pc[1].entry \notin {pc[1].registry.entries[i] : i \in 1..Len(pc[1].registry.entries)}

----------------------------------------------------------------------------
(* Properties of the runtime material (checked under SpecMaterial)          *)

\* update_runtime_material has just run and the runtime terrain entity exists
MaterialUpdated ==
    /\ pc # None
    /\ "op" \in DOMAIN pc[1]
    /\ pc[1].op = "update_runtime_material"
    /\ app.runtime
    /\ app.visibility # None

\* the image handles of the registered terrain and wall textures
Tracked ==
    LET images(e, fields) == UNION {IF e[f] = None THEN {} ELSE {e[f][1]} : f \in fields}
    IN  UNION {{app.textures.entries[k].preview}
                  \cup images(app.textures.entries[k], {"normal", "roughness"}) :
               k \in 1..Len(app.textures.entries)}
            \cup (IF app.textures.wall_texture = None THEN {}
                  ELSE {app.textures.wall_texture[1].base_color}
                           \cup images(app.textures.wall_texture[1], {"normal", "roughness"}))

\* everything the entity needs to be shown is there
Showable ==
    /\ \A h \in Tracked : app.asset_server[h] = "Loaded"
    /\ app.material # None
    /\ app.splat # None
    /\ app.textures.base_color_array # None
    /\ Len(app.textures.base_color_array[1]) >= 1
    /\ app.textures.wall_texture # None => pc[1].wall_assembled

\* C30: after each run of update_runtime_material in which the runtime
\* terrain entity exists, the entity is Visible only if no tracked terrain or
\* wall texture has failed or is still loading, the runtime material and the
\* splat map exist, and the base-colour array (and the wall array when a wall
\* texture is registered) was assembled with at least one layer; in every
\* other case it is Hidden.
C30_VisibleOnlyWhenReady ==
    MaterialUpdated =>
        /\ app.visibility = Some("Visible") => Showable
        /\ ~ Showable => app.visibility = Some("Hidden")

\* C30 witness: the entity is shown with all 4 terrain textures and the wall
\* texture registered, the material holding the 4 layers and the wall array
C30_Witness ==
    /\ MaterialUpdated
    /\ app.visibility = Some("Visible")
    /\ app.textures.wall_texture # None
    /\ app.textures.normal_array # None
    /\ app.material[1].layer_count = 4
    /\ app.material[1].wall_base_color # None

====
